---- MODULE Spec2Model ----
(***************************************************************************)
(* A model of the lobby core of mishi_server: the room lifecycle manager   *)
(* (src/src/managers/roomManager.js), the HTTP room handlers               *)
(* (src/src/handlers/roomHandlers.js, second definition of each handler)   *)
(* and the WebSocket layer (src/src/wsApp.js).                             *)
(*                                                                         *)
(* Node.js runs every handler to completion; the only suspension points    *)
(* modelled are the timers: the delay between two bot locks inside         *)
(* triggerBotsToLock and the grace delay before a superseded socket is     *)
(* closed.                                                                 *)
(***************************************************************************)
EXTENDS Integers, Sequences, FiniteSets, TLC

\* ------------------------------------------------------------------ bounds

\* Largest capacity a create or update request asks for.
MaxReqPlayers == 2
\* Largest number of triggerBotsToLock invocations suspended at the same time.
MaxTasks == 1
\* Number of sockets the connection model opens in one run.
MaxSockets == 3
\* Side of the map grid (7 in generateRooms; the hall is at the middle cell).
GridSize == 4
\* Period of the stream of random exit draws handed to generateRooms.
DrawPeriod == 2
\* Random parts a session token can have for one user.
TokenNonces == 2
\* Ticks of the clock in one run.
MaxTime == 2
\* Lifetime of a session in ticks (24 hours in createSession).
SessionTTL == 1

\* --------------------------------------------------------- program constants

MinCapacity == 2
MaxCapacity == 10
MinPlayersRule == 1
MaxPlayersRule == 10

ALL_HERO_IDS ==
  <<"dongdong", "missO", "fox", "prometheus", "drxu",
    "chenYY", "zilin", "ying", "qinhan", "navigator">>

\* JavaScript null / undefined.
NULL == "null"

\* ------------------------------------------------------------ input domains

\* Authenticated users that send requests, and the bot identities ADD_BOT supplies.
HumanIds == {"H", "M"}
BotIds == {"B"}
PlayerIds == HumanIds \cup BotIds
\* Room ids in the order generateRoomId hands them out.
RoomOrder == <<"r1">>
RoomIds == {RoomOrder[i] : i \in 1..Len(RoomOrder)}
\* heroId values a LOCK_HERO message carries (NULL: the field is missing).
ReqHeroes == {"fox", "prometheus", NULL}
ReqCaps == 1..MaxReqPlayers

VARIABLES
  rooms,       \* roomStore.rooms: a Map roomId -> room, here a function on the stored ids
  gameStates,  \* gameStateStore.gameStates: the room ids that have a game state
  roomLocks,   \* roomManager.roomLocks: held, the room ids with an entry (a join
               \* lock); timers, the room ids whose lock timeout is pending
  botTasks,    \* suspended triggerBotsToLock invocations (with their awaiting handleLockHero)
  sent,        \* what the last handler or step sent: HTTP response, socket messages, broadcasts
  clients,     \* wsApp.clients: a Map userId -> socket
  sockets,     \* every socket opened so far: owner, readyState, isAlive, and the
               \* history flag swept (a sweep has visited it since it last showed life)
  closeTimers, \* sockets with a pending setTimeout(() => oldWs.close(...), 100)
  sessions,    \* sessionStore.sessions: a Map token -> session (userId, expiresAt)
  userIdToToken, \* sessionStore.userIdToToken: a Map userId -> token
  now          \* Date.now(), in ticks

roomVars == <<rooms, gameStates, roomLocks, botTasks>>
connVars == <<clients, sockets, closeTimers>>
authVars == <<sessions, userIdToToken, now>>
vars == <<rooms, gameStates, roomLocks, botTasks, sent, clients, sockets, closeTimers,
          sessions, userIdToToken, now>>

\* ------------------------------------------------------------------ helpers

Min(a, b) == IF a < b THEN a ELSE b
Max(a, b) == IF a > b THEN a ELSE b

Range(s) == {s[i] : i \in 1..Len(s)}

\* Array.prototype.findIndex on openId, 1-based; 0 stands for -1.
findIndex(players, playerId) ==
  IF \E i \in 1..Len(players) : players[i].openId = playerId
  THEN CHOOSE i \in 1..Len(players) :
         /\ players[i].openId = playerId
         /\ \A j \in 1..(i - 1) : players[j].openId # playerId
  ELSE 0

\* Array.prototype.filter((_, index) => index !== k)
removeAt(s, k) == [i \in 1..(Len(s) - 1) |-> IF i < k THEN s[i] ELSE s[i + 1]]

\* Array.prototype.filter(pred) for a set of kept indexes.
RECURSIVE filterSeq(_, _)
filterSeq(s, keep) ==
  IF s = <<>> THEN <<>>
  ELSE LET rest == filterSeq(Tail(s), {i - 1 : i \in keep \ {1}})
       IN  IF 1 \in keep THEN <<Head(s)>> \o rest ELSE rest

\* roomStore.setRoom
setRoom(rs, roomId, roomData) == (roomId :> roomData) @@ rs

\* roomStore.hasRoom / getRoom(roomId) !== null
hasRoom(rs, roomId) == roomId \in DOMAIN rs

\* A message: an HTTP response (type "HTTP", code), a message to one socket user
\* (to = user id) or a broadcastToRoom call (to = room id).
Msg(type, to, code, event, playerId, heroId, isLocked, players) ==
  [type |-> type, to |-> to, code |-> code, event |-> event, playerId |-> playerId,
   heroId |-> heroId, isLocked |-> isLocked, players |-> players]

\* An HTTP response: its status code and what it reports.
Http(code, event) == Msg("HTTP", "client", code, event, NULL, NULL, FALSE, <<>>)

\* sendToClient(userId, {type: 'ERROR', ...}) as the room handlers use it.
ErrorTo(userId, event) == Msg("ERROR", userId, 0, event, NULL, NULL, FALSE, <<>>)

\* The roster an ACTUAL_GAME_START message carries.
Roster(players) ==
  [i \in 1..Len(players) |->
     [openId |-> players[i].openId, selectedHeroId |-> players[i].selectedHeroId]]

\* ------------------------------------------------------ roomManager.js

\* createRoom without the validation of name and hostId.
createRoom_NoValidation(rs, roomId, name, hostId, maxPlayers) ==
  LET room ==
        [roomId |-> roomId,
         hostId |-> hostId,
         status |-> "waiting",
         maxPlayers |-> Min(Max(MinCapacity, maxPlayers), MaxCapacity),
         players |-> << [openId |-> hostId, isHost |-> TRUE, ready |-> FALSE,
                         isHeroLocked |-> FALSE, selectedHeroId |-> NULL,
                         isBot |-> FALSE] >>,
         gameResults |-> <<>>]
  IN  [ok |-> TRUE, rooms |-> setRoom(rs, roomId, room)]

\* createRoom: returns [ok, rooms]; ok = FALSE stands for the thrown Error.
createRoom(rs, roomId, name, hostId, maxPlayers) ==
  IF name = NULL \/ hostId = NULL
  THEN [ok |-> FALSE, rooms |-> rs]
  ELSE LET room ==
             [roomId |-> roomId,
              hostId |-> hostId,
              status |-> "waiting",
              maxPlayers |-> Min(Max(MinCapacity, maxPlayers), MaxCapacity),
              players |-> << [openId |-> hostId, isHost |-> TRUE, ready |-> FALSE,
                              isHeroLocked |-> FALSE, selectedHeroId |-> NULL,
                              isBot |-> FALSE] >>,
              gameResults |-> <<>>]
       IN  [ok |-> TRUE, rooms |-> setRoom(rs, roomId, room)]

\* updateRoom: updateData is a function from field names to values.
disallowedFields == {"roomId", "hostId", "players", "createdAt", "status"}

\* updateRoom merging every supplied field.
updateRoom_NoFilter(rs, roomId, updateData) ==
  IF ~hasRoom(rs, roomId)
  THEN [ok |-> FALSE, rooms |-> rs]
  ELSE LET room == rs[roomId]
           updatedRoom ==
             [k \in DOMAIN room |->
                IF k \in DOMAIN updateData THEN updateData[k] ELSE room[k]]
       IN  [ok |-> TRUE, rooms |-> setRoom(rs, roomId, updatedRoom)]

updateRoom(rs, roomId, updateData) ==
  IF ~hasRoom(rs, roomId)
  THEN [ok |-> FALSE, rooms |-> rs]
  ELSE LET room == rs[roomId]
           kept == DOMAIN updateData \ disallowedFields
           updatedRoom ==
             [k \in DOMAIN room |-> IF k \in kept THEN updateData[k] ELSE room[k]]
       IN  [ok |-> TRUE, rooms |-> setRoom(rs, roomId, updatedRoom)]

\* addPlayerToRoomLocks without the finally block.
addPlayerToRoomLocks_NoFinally(l, roomId) ==
  IF roomId \in l.held THEN l
  ELSE [held |-> l.held \cup {roomId}, timers |-> l.timers \cup {roomId}]

\* What a call of addPlayerToRoom(roomId) does to roomLocks and to the lock
\* timers.  With the lock held it returns before the try statement.  Otherwise
\* it starts the timeout and stores it as the lock, and the finally block, which
\* runs on every way out of the try statement, finds its own timeout stored,
\* clears it and deletes the lock.
addPlayerToRoomLocks(l, roomId) ==
  IF roomId \in l.held THEN l
  ELSE LET entered == [held |-> l.held \cup {roomId}, timers |-> l.timers \cup {roomId}]
       IN  IF roomId \in entered.held
           THEN [held |-> entered.held \ {roomId}, timers |-> entered.timers \ {roomId}]
           ELSE entered

\* addPlayerToRoom without the check of the room status.
addPlayerToRoom_NoStatusCheck(rs, locks, roomId, playerId, playerData) ==
  IF roomId \in locks THEN [result |-> "ROOM_LOCKED", rooms |-> rs]
  ELSE IF ~hasRoom(rs, roomId) THEN [result |-> "NULL", rooms |-> rs]
  ELSE LET room == rs[roomId] IN
    IF Len(room.players) >= room.maxPlayers
      THEN [result |-> "ROOM_FULL", rooms |-> rs]
    ELSE IF findIndex(room.players, playerId) # 0
      THEN [result |-> "EXISTING", rooms |-> rs]
    ELSE LET player == [openId |-> playerId, isHost |-> FALSE, ready |-> FALSE,
                        isHeroLocked |-> FALSE, selectedHeroId |-> NULL,
                        isBot |-> playerData.isBot]
             updatedRoom == [room EXCEPT !.players = Append(room.players, player)]
         IN  [result |-> "OK", rooms |-> setRoom(rs, roomId, updatedRoom)]

\* addPlayerToRoom: returns [result, rooms]; result is "OK", "EXISTING", "NULL"
\* (room missing) or the error code.  The lock is taken on entry and released in
\* the finally block of the same synchronous call (addPlayerToRoomLocks gives
\* that side of the call); playerData carries isBot (and a nickname, not modelled).
addPlayerToRoom(rs, locks, roomId, playerId, playerData) ==
  IF roomId \in locks THEN [result |-> "ROOM_LOCKED", rooms |-> rs]
  ELSE IF ~hasRoom(rs, roomId) THEN [result |-> "NULL", rooms |-> rs]
  ELSE LET room == rs[roomId] IN
    IF room.status # "waiting" THEN [result |-> "ROOM_NOT_WAITING", rooms |-> rs]
    ELSE IF Len(room.players) >= room.maxPlayers
      THEN [result |-> "ROOM_FULL", rooms |-> rs]
    ELSE IF findIndex(room.players, playerId) # 0
      THEN [result |-> "EXISTING", rooms |-> rs]
    ELSE LET player == [openId |-> playerId, isHost |-> FALSE, ready |-> FALSE,
                        isHeroLocked |-> FALSE, selectedHeroId |-> NULL,
                        isBot |-> playerData.isBot]
             updatedRoom == [room EXCEPT !.players = Append(room.players, player)]
         IN  [result |-> "OK", rooms |-> setRoom(rs, roomId, updatedRoom)]

\* removePlayerFromRoom without the host transfer: the host's departure leaves
\* hostId and the isHost flags of the others as they were.
removePlayerFromRoom_NoTransfer(rs, roomId, playerId) ==
  IF ~hasRoom(rs, roomId) THEN [ok |-> FALSE, rooms |-> rs]
  ELSE LET room == rs[roomId]
           playerIndex == findIndex(room.players, playerId)
       IN
    IF playerIndex = 0 THEN [ok |-> FALSE, rooms |-> rs]
    ELSE LET remaining == removeAt(room.players, playerIndex)
             updatedRoom ==
               [room EXCEPT
                  !.players = remaining,
                  !.status = IF Len(remaining) = 0 THEN "ended" ELSE room.status]
         IN  [ok |-> TRUE, rooms |-> setRoom(rs, roomId, updatedRoom)]

\* removePlayerFromRoom without the empty-room rule: the status is kept when the
\* last member leaves.
removePlayerFromRoom_KeepsStatus(rs, roomId, playerId) ==
  IF ~hasRoom(rs, roomId) THEN [ok |-> FALSE, rooms |-> rs]
  ELSE LET room == rs[roomId]
           playerIndex == findIndex(room.players, playerId)
       IN
    IF playerIndex = 0 THEN [ok |-> FALSE, rooms |-> rs]
    ELSE LET playerIsHost == room.players[playerIndex].isHost
             remaining == removeAt(room.players, playerIndex)
             transfer == playerIsHost /\ Len(remaining) > 0
             players2 == IF transfer
                         THEN [remaining EXCEPT ![1].isHost = TRUE]
                         ELSE remaining
             updatedRoom ==
               [room EXCEPT
                  !.players = players2,
                  !.hostId = IF transfer THEN remaining[1].openId ELSE room.hostId]
         IN  [ok |-> TRUE, rooms |-> setRoom(rs, roomId, updatedRoom)]

\* removePlayerFromRoom removing by splice(playerIndex, 1) without the
\* membership check: index -1 removes the last member.
removePlayerFromRoom_SpliceLast(rs, roomId, playerId) ==
  IF ~hasRoom(rs, roomId) THEN [ok |-> FALSE, rooms |-> rs]
  ELSE LET room == rs[roomId]
           found == findIndex(room.players, playerId)
           playerIndex == IF found = 0 THEN Len(room.players) ELSE found
       IN
    IF playerIndex = 0 THEN [ok |-> FALSE, rooms |-> rs]
    ELSE LET playerIsHost == room.players[playerIndex].isHost
             remaining == removeAt(room.players, playerIndex)
             transfer == playerIsHost /\ Len(remaining) > 0
             players2 == IF transfer
                         THEN [remaining EXCEPT ![1].isHost = TRUE]
                         ELSE remaining
             updatedRoom ==
               [room EXCEPT
                  !.players = players2,
                  !.hostId = IF transfer THEN remaining[1].openId ELSE room.hostId,
                  !.status = IF Len(remaining) = 0 THEN "ended" ELSE room.status]
         IN  [ok |-> TRUE, rooms |-> setRoom(rs, roomId, updatedRoom)]

\* removePlayerFromRoom: returns [ok, rooms].
removePlayerFromRoom(rs, roomId, playerId) ==
  IF ~hasRoom(rs, roomId) THEN [ok |-> FALSE, rooms |-> rs]
  ELSE LET room == rs[roomId]
           playerIndex == findIndex(room.players, playerId)
       IN
    IF playerIndex = 0 THEN [ok |-> FALSE, rooms |-> rs]
    ELSE LET playerIsHost == room.players[playerIndex].isHost
             remaining == removeAt(room.players, playerIndex)
             transfer == playerIsHost /\ Len(remaining) > 0
             players2 == IF transfer
                         THEN [remaining EXCEPT ![1].isHost = TRUE]
                         ELSE remaining
             updatedRoom ==
               [room EXCEPT
                  !.players = players2,
                  !.hostId = IF transfer THEN remaining[1].openId ELSE room.hostId,
                  !.status = IF Len(remaining) = 0 THEN "ended" ELSE room.status]
         IN  [ok |-> TRUE, rooms |-> setRoom(rs, roomId, updatedRoom)]

\* updatePlayerReady inverting the stored flag instead of writing the requested one.
updatePlayerReady_Invert(rs, roomId, playerId, ready) ==
  IF ~hasRoom(rs, roomId) THEN [ok |-> FALSE, rooms |-> rs]
  ELSE LET room == rs[roomId]
           playerIndex == findIndex(room.players, playerId)
       IN
    IF playerIndex = 0 THEN [ok |-> FALSE, rooms |-> rs]
    ELSE IF room.status # "waiting" THEN [ok |-> FALSE, rooms |-> rs]
    ELSE [ok |-> TRUE,
          rooms |-> setRoom(rs, roomId,
                      [room EXCEPT !.players[playerIndex].ready =
                                      ~room.players[playerIndex].ready])]

\* updatePlayerReady without the check of the room status.
updatePlayerReady_AnyStatus(rs, roomId, playerId, ready) ==
  IF ~hasRoom(rs, roomId) THEN [ok |-> FALSE, rooms |-> rs]
  ELSE LET room == rs[roomId]
           playerIndex == findIndex(room.players, playerId)
       IN
    IF playerIndex = 0 THEN [ok |-> FALSE, rooms |-> rs]
    ELSE [ok |-> TRUE,
          rooms |-> setRoom(rs, roomId,
                      [room EXCEPT !.players[playerIndex].ready = ready])]

\* updatePlayerReady: returns [ok, rooms].
updatePlayerReady(rs, roomId, playerId, ready) ==
  IF ~hasRoom(rs, roomId) THEN [ok |-> FALSE, rooms |-> rs]
  ELSE LET room == rs[roomId]
           playerIndex == findIndex(room.players, playerId)
       IN
    IF playerIndex = 0 THEN [ok |-> FALSE, rooms |-> rs]
    ELSE IF room.status # "waiting" THEN [ok |-> FALSE, rooms |-> rs]
    ELSE [ok |-> TRUE,
          rooms |-> setRoom(rs, roomId,
                      [room EXCEPT !.players[playerIndex].ready = ready])]

\* closeRoom: returns [ok, rooms].
closeRoom(rs, roomId) ==
  IF ~hasRoom(rs, roomId) THEN [ok |-> FALSE, rooms |-> rs]
  ELSE IF rs[roomId].status = "ended" THEN [ok |-> FALSE, rooms |-> rs]
  ELSE [ok |-> TRUE, rooms |-> setRoom(rs, roomId, [rs[roomId] EXCEPT !.status = "ended"])]

\* startGame skipping the selection phase: the room goes straight to 'playing'.
startGame_StraightToPlaying(rs, gs, roomId) ==
  IF ~hasRoom(rs, roomId) THEN [ok |-> FALSE, rooms |-> rs, gameStates |-> gs]
  ELSE LET room == rs[roomId] IN
    IF room.status # "waiting" THEN [ok |-> FALSE, rooms |-> rs, gameStates |-> gs]
    ELSE IF Len(room.players) < 1 THEN [ok |-> FALSE, rooms |-> rs, gameStates |-> gs]
    ELSE IF roomId \in gs THEN [ok |-> FALSE, rooms |-> rs, gameStates |-> gs]
    ELSE [ok |-> TRUE,
          rooms |-> setRoom(rs, roomId, [room EXCEPT !.status = "playing"]),
          gameStates |-> gs \cup {roomId}]

\* startGame: returns [ok, rooms, gameStates].
startGame(rs, gs, roomId) ==
  IF ~hasRoom(rs, roomId) THEN [ok |-> FALSE, rooms |-> rs, gameStates |-> gs]
  ELSE LET room == rs[roomId] IN
    IF room.status # "waiting" THEN [ok |-> FALSE, rooms |-> rs, gameStates |-> gs]
    ELSE IF Len(room.players) < 1 THEN [ok |-> FALSE, rooms |-> rs, gameStates |-> gs]
    ELSE IF roomId \in gs THEN [ok |-> FALSE, rooms |-> rs, gameStates |-> gs]
    ELSE [ok |-> TRUE,
          rooms |-> setRoom(rs, roomId, [room EXCEPT !.status = "CHARACTER_SELECT"]),
          gameStates |-> gs \cup {roomId}]

\* endGame without the check of the room status.
endGame_AnyStatus(rs, gs, roomId, results) ==
  IF ~hasRoom(rs, roomId) THEN [ok |-> FALSE, rooms |-> rs, gameStates |-> gs]
  ELSE LET room == rs[roomId] IN
    IF roomId \notin gs THEN [ok |-> FALSE, rooms |-> rs, gameStates |-> gs]
    ELSE [ok |-> TRUE,
          rooms |-> setRoom(rs, roomId,
                      [room EXCEPT
                         !.status = "ended",
                         !.gameResults =
                            << results \cup
                               {room.players[i].openId : i \in 1..Len(room.players)} >>]),
          gameStates |-> gs \ {roomId}]

\* endGame: returns [ok, rooms, gameStates].  `results` is the key set of the
\* playerResults object the caller passes (empty when it passes none): it
\* replaces the empty playerResults by the spread, and the loop then writes
\* one entry for every member into it.  gameResults is the empty sequence
\* while the room has no results and holds the key set of playerResults after.
endGame(rs, gs, roomId, results) ==
  IF ~hasRoom(rs, roomId) THEN [ok |-> FALSE, rooms |-> rs, gameStates |-> gs]
  ELSE LET room == rs[roomId] IN
    IF room.status # "playing" THEN [ok |-> FALSE, rooms |-> rs, gameStates |-> gs]
    ELSE IF roomId \notin gs THEN [ok |-> FALSE, rooms |-> rs, gameStates |-> gs]
    ELSE [ok |-> TRUE,
          rooms |-> setRoom(rs, roomId,
                      [room EXCEPT
                         !.status = "ended",
                         !.gameResults =
                            << results \cup
                               {room.players[i].openId : i \in 1..Len(room.players)} >>]),
          gameStates |-> gs \ {roomId}]

\* getPlayerRoomId: the first room, in insertion order, that lists the player.
getPlayerRoomId(rs, playerId) ==
  LET holding == {i \in 1..Len(RoomOrder) :
                    /\ hasRoom(rs, RoomOrder[i])
                    /\ findIndex(rs[RoomOrder[i]].players, playerId) # 0}
  IN  IF holding = {} THEN NULL
      ELSE RoomOrder[CHOOSE i \in holding : \A j \in holding : i <= j]

\* setPlayerHeroLockStatus without the isHeroTaken check.
setPlayerHeroLockStatus_NoTakenCheck(rs, roomId, playerId, isLocked, heroId) ==
  IF ~hasRoom(rs, roomId) THEN [ok |-> FALSE, rooms |-> rs]
  ELSE LET room == rs[roomId]
           playerIndex == findIndex(room.players, playerId)
       IN
    IF playerIndex = 0 THEN [ok |-> FALSE, rooms |-> rs]
    ELSE [ok |-> TRUE,
          rooms |-> setRoom(rs, roomId,
                      [room EXCEPT
                         !.players[playerIndex].isHeroLocked = isLocked,
                         !.players[playerIndex].selectedHeroId =
                            IF isLocked THEN heroId ELSE NULL])]

\* setPlayerHeroLockStatus writing the selection before it checks whether the
\* hero is taken: the call fails but the requester's selection has changed.
setPlayerHeroLockStatus_WriteBeforeCheck(rs, roomId, playerId, isLocked, heroId) ==
  IF ~hasRoom(rs, roomId) THEN [ok |-> FALSE, rooms |-> rs]
  ELSE LET room == rs[roomId]
           playerIndex == findIndex(room.players, playerId)
           isHeroTaken ==
             \E index \in 1..Len(room.players) :
                /\ index # playerIndex
                /\ room.players[index].isHeroLocked
                /\ room.players[index].selectedHeroId = heroId
       IN
    IF playerIndex = 0 THEN [ok |-> FALSE, rooms |-> rs]
    ELSE [ok |-> ~(isLocked /\ heroId # NULL /\ isHeroTaken),
          rooms |-> setRoom(rs, roomId,
                      [room EXCEPT
                         !.players[playerIndex].isHeroLocked = isLocked,
                         !.players[playerIndex].selectedHeroId =
                            IF isLocked THEN heroId ELSE NULL])]

\* setPlayerHeroLockStatus recording the passed heroId on unlock as well.
setPlayerHeroLockStatus_KeepsHeroId(rs, roomId, playerId, isLocked, heroId) ==
  IF ~hasRoom(rs, roomId) THEN [ok |-> FALSE, rooms |-> rs]
  ELSE LET room == rs[roomId]
           playerIndex == findIndex(room.players, playerId)
           isHeroTaken ==
             \E index \in 1..Len(room.players) :
                /\ index # playerIndex
                /\ room.players[index].isHeroLocked
                /\ room.players[index].selectedHeroId = heroId
       IN
    IF playerIndex = 0 THEN [ok |-> FALSE, rooms |-> rs]
    ELSE IF isLocked /\ heroId # NULL /\ isHeroTaken THEN [ok |-> FALSE, rooms |-> rs]
    ELSE [ok |-> TRUE,
          rooms |-> setRoom(rs, roomId,
                      [room EXCEPT
                         !.players[playerIndex].isHeroLocked = isLocked,
                         !.players[playerIndex].selectedHeroId = heroId])]

\* setPlayerHeroLockStatus: returns [ok, rooms].
setPlayerHeroLockStatus(rs, roomId, playerId, isLocked, heroId) ==
  IF ~hasRoom(rs, roomId) THEN [ok |-> FALSE, rooms |-> rs]
  ELSE LET room == rs[roomId]
           playerIndex == findIndex(room.players, playerId)
           isHeroTaken ==
             \E index \in 1..Len(room.players) :
                /\ index # playerIndex
                /\ room.players[index].isHeroLocked
                /\ room.players[index].selectedHeroId = heroId
       IN
    IF playerIndex = 0 THEN [ok |-> FALSE, rooms |-> rs]
    ELSE IF isLocked /\ heroId # NULL /\ isHeroTaken THEN [ok |-> FALSE, rooms |-> rs]
    ELSE [ok |-> TRUE,
          rooms |-> setRoom(rs, roomId,
                      [room EXCEPT
                         !.players[playerIndex].isHeroLocked = isLocked,
                         !.players[playerIndex].selectedHeroId =
                            IF isLocked THEN heroId ELSE NULL])]

\* checkAllPlayersLocked
checkAllPlayersLocked(rs, roomId) ==
  /\ hasRoom(rs, roomId)
  /\ Len(rs[roomId].players) # 0
  /\ \A i \in 1..Len(rs[roomId].players) : rs[roomId].players[i].isHeroLocked

\* getLockedCharacters
getLockedCharacters(rs, roomId) ==
  IF ~hasRoom(rs, roomId) THEN {}
  ELSE {rs[roomId].players[i].selectedHeroId :
          i \in {j \in 1..Len(rs[roomId].players) :
                   /\ rs[roomId].players[j].isHeroLocked
                   /\ rs[roomId].players[j].selectedHeroId # NULL}}

\* getAvailableHeroIds (as a set; the caller draws one index at random)
getAvailableHeroIds(rs, roomId) ==
  IF ~hasRoom(rs, roomId) THEN Range(ALL_HERO_IDS)
  ELSE Range(ALL_HERO_IDS) \ getLockedCharacters(rs, roomId)

\* ------------------------------------------------------ wsApp.js, room side

\* module.exports of wsApp.js: broadcastToRoom is not among the exported names, so
\* wsApp.broadcastToRoom(...) in roomHandlers.js throws a TypeError.
wsAppExportsBroadcastToRoom == FALSE

\* broadcastToRoom that sends nothing.
broadcastToRoom_Muted(rs, roomId, message) == <<>>

\* broadcastToRoom(roomId, message): the call reaches its sending loop only when
\* the room exists and has members; the result is the list of broadcasts made.
broadcastToRoom(rs, roomId, message) ==
  IF hasRoom(rs, roomId) /\ Len(rs[roomId].players) > 0 THEN <<message>> ELSE <<>>

LockedMsg(roomId, playerId, heroId, isLocked) ==
  Msg("PLAYER_HERO_LOCKED", roomId, 0, NULL, playerId, heroId, isLocked, <<>>)

StartMsg(roomId, players) ==
  Msg("ACTUAL_GAME_START", roomId, 0, NULL, NULL, NULL, FALSE, Roster(players))

RoomUpdateMsg(roomId, eventType) ==
  Msg("ROOM_UPDATE", roomId, 0, eventType, NULL, NULL, FALSE, <<>>)

PlayerJoinedMsg(roomId, playerId) ==
  Msg("PLAYER_JOINED", roomId, 0, NULL, playerId, NULL, FALSE, <<>>)

\* The "all players locked" check and the transition it is meant to make, as
\* written at the end of handleLockHero and inside the loop of triggerBotsToLock:
\* updateRoom(roomId, {status: 'playing', ...}) and the ACTUAL_GAME_START broadcast.
finalStart(rs, roomId) ==
  IF checkAllPlayersLocked(rs, roomId)
  THEN LET u == updateRoom(rs, roomId, [status |-> "playing"])
       IN  IF u.ok
           THEN [rooms |-> u.rooms,
                 sent |-> broadcastToRoom(u.rooms, roomId,
                            StartMsg(roomId, u.rooms[roomId].players))]
           ELSE [rooms |-> rs, sent |-> <<>>]
  ELSE [rooms |-> rs, sent |-> <<>>]

\* One iteration of the loop of triggerBotsToLock for bot botId and the hero drawn.
botLock(rs, roomId, botId, chosenHeroId) ==
  LET s == setPlayerHeroLockStatus(rs, roomId, botId, TRUE, chosenHeroId)
  IN  IF s.ok
      THEN LET f == finalStart(s.rooms, roomId)
           IN  [rooms |-> f.rooms,
                sent |-> broadcastToRoom(s.rooms, roomId,
                           LockedMsg(roomId, botId, chosenHeroId, TRUE)) \o f.sent]
      ELSE [rooms |-> s.rooms, sent |-> <<>>]

\* triggerBotsToLock from the point where its loop (re)starts with `queue` bots
\* left, followed, when the loop is over, by the rest of the awaiting
\* handleLockHero (its final all-locked check).  With no hero available every
\* remaining bot is skipped by `continue` without a delay.  `out` is what the
\* handler sent before, `others` the other suspended invocations.
RunBots(rs, roomId, queue, out, others) ==
  IF queue = <<>> \/ getAvailableHeroIds(rs, roomId) = {}
  THEN LET upd == broadcastToRoom(rs, roomId, RoomUpdateMsg(roomId, "BOTS_DONE"))
           f == finalStart(rs, roomId)
       IN  /\ rooms' = f.rooms
           /\ sent' = out \o upd \o f.sent
           /\ botTasks' = others
  ELSE \E chosenHeroId \in getAvailableHeroIds(rs, roomId) :
         LET b == botLock(rs, roomId, Head(queue), chosenHeroId)
         IN  /\ rooms' = b.rooms
             /\ sent' = out \o b.sent
             /\ botTasks' = Append(others, [roomId |-> roomId, queue |-> Tail(queue)])

\* handleLockHero(userId, {heroId, isLocked}), up to its first suspension.
HandleLockHero(userId, heroId, isLocked) ==
  /\ UNCHANGED authVars
  /\ UNCHANGED <<gameStates, roomLocks>>
  /\ UNCHANGED connVars
  /\ LET roomId == getPlayerRoomId(rooms, userId) IN
     IF roomId = NULL
     THEN /\ sent' = <<ErrorTo(userId, "NOT_IN_ROOM")>>
          /\ UNCHANGED <<rooms, botTasks>>
     ELSE
       LET before == rooms[roomId].players
           lockingPlayer == before[findIndex(before, userId)]
           s == setPlayerHeroLockStatus(rooms, roomId, userId, isLocked, heroId)
       IN
       IF ~s.ok
       THEN /\ sent' = <<ErrorTo(userId, "LOCK_FAILED")>>
            /\ rooms' = s.rooms
            /\ UNCHANGED botTasks
       ELSE
         LET players == s.rooms[roomId].players
             me == players[findIndex(players, userId)]
             out == broadcastToRoom(s.rooms, roomId,
                      LockedMsg(roomId, userId, me.selectedHeroId, me.isHeroLocked))
             allHumansLocked ==
               \A i \in 1..Len(players) : ~players[i].isBot => players[i].isHeroLocked
             botsToLock ==
               filterSeq(players, {i \in 1..Len(players) :
                                     players[i].isBot /\ ~players[i].isHeroLocked})
             botIds == [i \in 1..Len(botsToLock) |-> botsToLock[i].openId]
         IN
         IF s.rooms[roomId].status # "CHARACTER_SELECT"
         THEN /\ rooms' = s.rooms
              /\ sent' = out
              /\ UNCHANGED botTasks
         ELSE IF ~lockingPlayer.isBot /\ isLocked /\ allHumansLocked /\ botIds # <<>>
         THEN /\ Len(botTasks) < MaxTasks
              /\ RunBots(s.rooms, roomId, botIds, out, botTasks)
         ELSE LET f == finalStart(s.rooms, roomId)
              IN  /\ rooms' = f.rooms
                  /\ sent' = out \o f.sent
                  /\ UNCHANGED botTasks

\* The delay inside triggerBotsToLock elapses for the k-th suspended invocation.
BotTaskStep(k) ==
  /\ UNCHANGED authVars
  /\ k \in 1..Len(botTasks)
  /\ RunBots(rooms, botTasks[k].roomId, botTasks[k].queue, <<>>, removeAt(botTasks, k))
  /\ UNCHANGED <<gameStates, roomLocks>>
  /\ UNCHANGED connVars

\* handlePlayerReady(userId, {ready}) (the PLAYER_READY socket message)
HandlePlayerReady(userId, ready) ==
  /\ UNCHANGED authVars
  /\ UNCHANGED <<gameStates, roomLocks, botTasks>>
  /\ UNCHANGED connVars
  /\ LET playerRoomId == getPlayerRoomId(rooms, userId) IN
     IF playerRoomId = NULL
     THEN /\ sent' = <<>>
          /\ UNCHANGED rooms
     ELSE LET r == updatePlayerReady(rooms, playerRoomId, userId, ready)
          IN  /\ rooms' = r.rooms
              /\ sent' = IF r.ok
                         THEN broadcastToRoom(r.rooms, playerRoomId,
                                RoomUpdateMsg(playerRoomId, "PLAYER_READY_CHANGED"))
                         ELSE <<>>

\* handleAddBot(ws, {roomId, botId, botName}) (the ADD_BOT socket message); the
\* sender is the user registered for the socket the message came from.
HandleAddBot(playerId, roomId, botId) ==
  /\ UNCHANGED authVars
  /\ UNCHANGED <<gameStates, botTasks>>
  /\ UNCHANGED connVars
  /\ IF getPlayerRoomId(rooms, playerId) # roomId
     THEN /\ sent' = <<>>
          /\ UNCHANGED <<rooms, roomLocks>>
     ELSE LET j == addPlayerToRoom(rooms, roomLocks.held, roomId, botId, [isBot |-> TRUE])
          IN  /\ roomLocks' = addPlayerToRoomLocks(roomLocks, roomId)
              /\ IF j.result \notin {"OK", "EXISTING"}
                 THEN /\ sent' = <<>>
                      /\ rooms' = j.rooms
                 ELSE LET r == updatePlayerReady(j.rooms, roomId, botId, TRUE)
                      IN  /\ rooms' = r.rooms
                          /\ sent' =
                               broadcastToRoom(j.rooms, roomId,
                                               PlayerJoinedMsg(roomId, botId))
                               \o (IF r.ok
                                   THEN broadcastToRoom(r.rooms, roomId,
                                          RoomUpdateMsg(roomId, "BOT_READY"))
                                   ELSE <<>>)

\* ------------------------------------------------------ roomHandlers.js

\* What a handler sends after a mutation it has to announce: the broadcast and the
\* success response, or, wsApp.broadcastToRoom being undefined, the 500 of the
\* handler's catch block.
announce(rs, roomId, eventType, okCode) ==
  IF wsAppExportsBroadcastToRoom
  THEN broadcastToRoom(rs, roomId, RoomUpdateMsg(roomId, eventType)) \o <<Http(okCode, "OK")>>
  ELSE <<Http(500, "EXCEPTION")>>

\* handleCreateRoom: hostId is req.userId, the name defaults to a generated one.
HandleCreateRoom(hostId, maxPlayers) ==
  /\ UNCHANGED authVars
  /\ Cardinality(DOMAIN rooms) < Len(RoomOrder)
  /\ UNCHANGED <<gameStates, roomLocks, botTasks>>
  /\ UNCHANGED connVars
  /\ IF maxPlayers < MinPlayersRule \/ maxPlayers > MaxPlayersRule
     THEN /\ sent' = <<Http(400, "INVALID")>>
          /\ UNCHANGED rooms
     ELSE LET c == createRoom(rooms, RoomOrder[Cardinality(DOMAIN rooms) + 1],
                              "name", hostId, maxPlayers)
          IN  /\ rooms' = c.rooms
              /\ sent' = IF c.ok THEN <<Http(201, "OK")>> ELSE <<Http(500, "EXCEPTION")>>

\* handleUpdateRoom with a body {maxPlayers}
HandleUpdateRoom(roomId, maxPlayers) ==
  /\ UNCHANGED authVars
  /\ UNCHANGED <<gameStates, roomLocks, botTasks>>
  /\ UNCHANGED connVars
  /\ IF maxPlayers < MinPlayersRule \/ maxPlayers > MaxPlayersRule
     THEN /\ sent' = <<Http(400, "INVALID")>>
          /\ UNCHANGED rooms
     ELSE LET u == updateRoom(rooms, roomId, [maxPlayers |-> maxPlayers])
          IN  /\ rooms' = u.rooms
              /\ sent' = IF u.ok THEN <<Http(200, "OK")>> ELSE <<Http(404, "NULL")>>

\* handleCloseRoom
HandleCloseRoom(roomId) ==
  /\ UNCHANGED authVars
  /\ UNCHANGED <<gameStates, roomLocks, botTasks>>
  /\ UNCHANGED connVars
  /\ LET c == closeRoom(rooms, roomId)
     IN  /\ rooms' = c.rooms
         /\ sent' = IF c.ok THEN <<Http(200, "OK")>> ELSE <<Http(404, "NULL")>>

\* handleAddPlayerToRoom: playerId is req.userId, playerData = {nickname}
HandleAddPlayerToRoom(roomId, playerId) ==
  /\ UNCHANGED authVars
  /\ UNCHANGED <<gameStates, botTasks>>
  /\ UNCHANGED connVars
  /\ LET j == addPlayerToRoom(rooms, roomLocks.held, roomId, playerId, [isBot |-> FALSE])
     IN  /\ rooms' = j.rooms
         /\ roomLocks' = addPlayerToRoomLocks(roomLocks, roomId)
         /\ sent' =
              CASE j.result = "ROOM_FULL" -> <<Http(409, "ROOM_FULL")>>
                [] j.result = "ROOM_NOT_WAITING" -> <<Http(403, "ROOM_NOT_WAITING")>>
                [] j.result \in {"ROOM_LOCKED", "INTERNAL_ERROR", "NULL"} ->
                     <<Http(500, j.result)>>
                [] OTHER -> announce(j.rooms, roomId, "PLAYER_JOINED", 200)

\* handleRemovePlayerFromRoom (DELETE /:roomId/player/:playerId)
HandleRemovePlayerFromRoom(roomId, playerId) ==
  /\ UNCHANGED authVars
  /\ UNCHANGED <<gameStates, roomLocks, botTasks>>
  /\ UNCHANGED connVars
  /\ LET r == removePlayerFromRoom(rooms, roomId, playerId)
     IN  /\ rooms' = r.rooms
         /\ sent' = IF r.ok THEN <<Http(200, "OK")>> ELSE <<Http(404, "NULL")>>

\* handleLeaveRoom (POST /leave): the player is req.userId
HandleLeaveRoom(roomId, playerId) ==
  /\ UNCHANGED authVars
  /\ UNCHANGED <<gameStates, roomLocks, botTasks>>
  /\ UNCHANGED connVars
  /\ LET r == removePlayerFromRoom(rooms, roomId, playerId)
     IN  /\ rooms' = r.rooms
         /\ sent' = IF r.ok THEN <<Http(200, "OK")>> ELSE <<Http(404, "NULL")>>

\* handleUpdatePlayerReady (POST /ready)
HandleUpdatePlayerReady(roomId, playerId, ready) ==
  /\ UNCHANGED authVars
  /\ UNCHANGED <<gameStates, roomLocks, botTasks>>
  /\ UNCHANGED connVars
  /\ LET r == updatePlayerReady(rooms, roomId, playerId, ready)
     IN  /\ rooms' = r.rooms
         /\ sent' = IF r.ok
                    THEN announce(r.rooms, roomId, "PLAYER_READY_CHANGED", 200)
                    ELSE <<Http(404, "NULL")>>

\* handleStartGame without check 3 (players.length === maxPlayers).
HandleStartGame_NoFullCheck(roomId, userId) ==
  /\ UNCHANGED authVars
  /\ UNCHANGED <<roomLocks, botTasks>>
  /\ UNCHANGED connVars
  /\ IF ~hasRoom(rooms, roomId)
     THEN /\ sent' = <<Http(404, "NULL")>>
          /\ UNCHANGED <<rooms, gameStates>>
     ELSE LET room == rooms[roomId] IN
       IF room.hostId # userId
       THEN /\ sent' = <<Http(403, "NOT_HOST")>>
            /\ UNCHANGED <<rooms, gameStates>>
       ELSE IF room.status # "waiting"
       THEN /\ sent' = <<Http(400, "NOT_WAITING")>>
            /\ UNCHANGED <<rooms, gameStates>>
       ELSE IF ~(\A i \in 1..Len(room.players) : room.players[i].ready)
       THEN /\ sent' = <<Http(400, "NOT_READY")>>
            /\ UNCHANGED <<rooms, gameStates>>
       ELSE LET g == startGame(rooms, gameStates, roomId)
            IN  /\ rooms' = g.rooms
                /\ gameStates' = g.gameStates
                /\ sent' =
                     IF ~g.ok THEN <<Http(500, "START_FAILED")>>
                     ELSE <<Http(200, "OK")>>
                          \o (IF wsAppExportsBroadcastToRoom
                              THEN broadcastToRoom(g.rooms, roomId,
                                     RoomUpdateMsg(roomId, "START_CHARACTER_SELECT"))
                              ELSE <<>>)

\* handleStartGame.  The success response is sent before the broadcast, so the
\* TypeError of wsApp.broadcastToRoom reaches the caller only as a log line.
HandleStartGame(roomId, userId) ==
  /\ UNCHANGED authVars
  /\ UNCHANGED <<roomLocks, botTasks>>
  /\ UNCHANGED connVars
  /\ IF ~hasRoom(rooms, roomId)
     THEN /\ sent' = <<Http(404, "NULL")>>
          /\ UNCHANGED <<rooms, gameStates>>
     ELSE LET room == rooms[roomId] IN
       IF room.hostId # userId
       THEN /\ sent' = <<Http(403, "NOT_HOST")>>
            /\ UNCHANGED <<rooms, gameStates>>
       ELSE IF room.status # "waiting"
       THEN /\ sent' = <<Http(400, "NOT_WAITING")>>
            /\ UNCHANGED <<rooms, gameStates>>
       ELSE IF Len(room.players) # room.maxPlayers
       THEN /\ sent' = <<Http(400, "NOT_FULL")>>
            /\ UNCHANGED <<rooms, gameStates>>
       ELSE IF ~(\A i \in 1..Len(room.players) : room.players[i].ready)
       THEN /\ sent' = <<Http(400, "NOT_READY")>>
            /\ UNCHANGED <<rooms, gameStates>>
       ELSE LET g == startGame(rooms, gameStates, roomId)
            IN  /\ rooms' = g.rooms
                /\ gameStates' = g.gameStates
                /\ sent' =
                     IF ~g.ok THEN <<Http(500, "START_FAILED")>>
                     ELSE <<Http(200, "OK")>>
                          \o (IF wsAppExportsBroadcastToRoom
                              THEN broadcastToRoom(g.rooms, roomId,
                                     RoomUpdateMsg(roomId, "START_CHARACTER_SELECT"))
                              ELSE <<>>)

\* handleEndGame
HandleEndGame(roomId, results) ==
  /\ UNCHANGED authVars
  /\ UNCHANGED <<roomLocks, botTasks>>
  /\ UNCHANGED connVars
  /\ LET e == endGame(rooms, gameStates, roomId, results)
     IN  /\ rooms' = e.rooms
         /\ gameStates' = e.gameStates
         /\ sent' = IF e.ok THEN <<Http(200, "OK")>> ELSE <<Http(404, "NULL")>>

\* ------------------------------------------------------ the lobby specification

Init ==
  /\ rooms = <<>>
  /\ gameStates = {}
  /\ roomLocks = [held |-> {}, timers |-> {}]
  /\ botTasks = <<>>
  /\ sent = <<>>
  /\ clients = <<>>
  /\ sockets = <<>>
  /\ closeTimers = {}
  /\ sessions = <<>>
  /\ userIdToToken = <<>>
  /\ now = 0

Next ==
  \/ \E hostId \in HumanIds, maxPlayers \in ReqCaps : HandleCreateRoom(hostId, maxPlayers)
  \/ \E roomId \in RoomIds, maxPlayers \in ReqCaps : HandleUpdateRoom(roomId, maxPlayers)
  \/ \E roomId \in RoomIds : HandleCloseRoom(roomId)
  \/ \E roomId \in RoomIds, playerId \in HumanIds : HandleAddPlayerToRoom(roomId, playerId)
  \/ \E roomId \in RoomIds, playerId \in PlayerIds :
        HandleRemovePlayerFromRoom(roomId, playerId)
  \/ \E roomId \in RoomIds, playerId \in HumanIds : HandleLeaveRoom(roomId, playerId)
  \/ \E roomId \in RoomIds, playerId \in HumanIds, ready \in BOOLEAN :
        HandleUpdatePlayerReady(roomId, playerId, ready)
  \/ \E userId \in HumanIds, ready \in BOOLEAN : HandlePlayerReady(userId, ready)
  \/ \E playerId \in HumanIds, roomId \in RoomIds, botId \in BotIds :
        HandleAddBot(playerId, roomId, botId)
  \/ \E roomId \in RoomIds, userId \in HumanIds : HandleStartGame(roomId, userId)
  \/ \E userId \in HumanIds, heroId \in ReqHeroes, isLocked \in BOOLEAN :
        HandleLockHero(userId, heroId, isLocked)
  \/ \E k \in 1..MaxTasks : BotTaskStep(k)
  \/ \E roomId \in RoomIds, results \in SUBSET PlayerIds : HandleEndGame(roomId, results)

Spec == Init /\ [][Next]_vars

\* ------------------------------------------------------ properties of the lobby

\* The members of room r, before and after a step.
Members(r) == rooms[r].players
MembersAfter(r) == rooms'[r].players

\* Member p of room r is locked (FALSE when p is not a member).
LockedIn(players, p) ==
  \E i \in 1..Len(players) : players[i].openId = p /\ players[i].isHeroLocked

\* A lock event in room r: a step in which some member of r becomes locked.
LockEvent(r) ==
  /\ hasRoom(rooms, r)
  /\ hasRoom(rooms', r)
  /\ \E p \in PlayerIds : ~LockedIn(Members(r), p) /\ LockedIn(MembersAfter(r), p)

\* C1: in every room and for every hero id, at most one member is locked on it.
C1_HeroUniqueness ==
  \A r \in DOMAIN rooms :
    \A i, j \in 1..Len(Members(r)) :
      ( /\ i # j
        /\ Members(r)[i].isHeroLocked
        /\ Members(r)[j].isHeroLocked
        /\ Members(r)[i].selectedHeroId # NULL )
      => Members(r)[i].selectedHeroId # Members(r)[j].selectedHeroId

\* C1's case: two members of one room are locked, each on a hero.
C1_Witness ==
  \E r \in DOMAIN rooms :
    \E i, j \in 1..Len(Members(r)) :
      /\ i # j
      /\ Members(r)[i].isHeroLocked /\ Members(r)[i].selectedHeroId # NULL
      /\ Members(r)[j].isHeroLocked /\ Members(r)[j].selectedHeroId # NULL

\* C2: a lock event in a room in character selection after which every member
\* is locked puts the room in status 'playing' and broadcasts ACTUAL_GAME_START
\* with the roster and the heroes chosen.
C2_AllLockedStartsPlaying ==
  [][\A r \in RoomIds :
       ( /\ LockEvent(r)
         /\ rooms[r].status = "CHARACTER_SELECT"
         /\ checkAllPlayersLocked(rooms', r) )
       => /\ rooms'[r].status = "playing"
          /\ \E i \in 1..Len(sent') : sent'[i] = StartMsg(r, MembersAfter(r))]_vars

\* C4: no room ever has more members than its maxPlayers, and a join of a new
\* player into a room that is full fails with ROOM_FULL and changes nothing.
C4_CapacityBound ==
  \A r \in DOMAIN rooms :
    /\ Len(Members(r)) <= rooms[r].maxPlayers
    /\ \A p \in PlayerIds :
         ( /\ findIndex(Members(r), p) = 0
           /\ Len(Members(r)) >= rooms[r].maxPlayers
           /\ rooms[r].status = "waiting" )
         => addPlayerToRoom(rooms, roomLocks.held, r, p, [isBot |-> FALSE])
              = [result |-> "ROOM_FULL", rooms |-> rooms]

\* C5: a room with members has exactly one member with isHost, the one whose
\* openId is the room's hostId.
C5_SingleHost ==
  \A r \in DOMAIN rooms :
    Len(Members(r)) > 0 =>
      \E i \in 1..Len(Members(r)) :
        /\ Members(r)[i].isHost
        /\ Members(r)[i].openId = rooms[r].hostId
        /\ \A j \in 1..Len(Members(r)) : Members(r)[j].isHost => j = i

\* C5's case: the host left and a member who never created a room is the host.
C5_Witness ==
  \E r \in DOMAIN rooms :
    /\ Len(Members(r)) >= 2
    /\ rooms[r].hostId \in BotIds
    /\ Members(r)[1].openId = rooms[r].hostId

\* A step that removes member p from room r.
Removes(r, p) ==
  /\ hasRoom(rooms, r)
  /\ hasRoom(rooms', r)
  /\ findIndex(Members(r), p) # 0
  /\ findIndex(MembersAfter(r), p) = 0

StatusValues == {"waiting", "CHARACTER_SELECT", "playing", "ended"}
StatedTransitions ==
  {<<"waiting", "CHARACTER_SELECT">>, <<"CHARACTER_SELECT", "playing">>,
   <<"playing", "ended">>, <<"waiting", "ended">>}

\* C7 as stated: the status only changes along waiting -> character_select,
\* character_select -> playing, playing -> ended and waiting -> ended.
C7_StatedStateMachine ==
  [][\A r \in RoomIds :
       /\ hasRoom(rooms', r) => rooms'[r].status \in StatusValues
       /\ (hasRoom(rooms, r) /\ rooms'[r].status # rooms[r].status)
            => <<rooms[r].status, rooms'[r].status>> \in StatedTransitions]_vars

\* C7, amended: the status takes only the four values, a new room is waiting,
\* and the status only changes along the stated transitions or from any status
\* but 'ended' to 'ended' (closeRoom, the last member leaving); 'ended' is final
\* and waiting -> playing never happens.
C7_StateMachine ==
  [][\A r \in RoomIds :
       /\ hasRoom(rooms', r) => rooms'[r].status \in StatusValues
       /\ (~hasRoom(rooms, r) /\ hasRoom(rooms', r)) => rooms'[r].status = "waiting"
       /\ (hasRoom(rooms, r) /\ rooms'[r].status # rooms[r].status)
            => \/ <<rooms[r].status, rooms'[r].status>> \in StatedTransitions
               \/ rooms[r].status # "ended" /\ rooms'[r].status = "ended"]_vars

\* C7's case: a room that went through character selection (its game state was
\* created) and was ended from there.
C7_Witness ==
  \E r \in DOMAIN rooms : rooms[r].status = "ended" /\ r \in gameStates

\* C8: in a room in character selection with one human and one unlocked bot,
\* the step in which the human locks a hero leaves the bot locked on another
\* hero and the room in status 'playing'.
C8_BotAutoFill ==
  [][\A r \in RoomIds :
       ( /\ hasRoom(rooms, r)
         /\ rooms[r].status = "CHARACTER_SELECT"
         /\ Len(Members(r)) = 2
         /\ \E i, j \in 1..2 :
              /\ ~Members(r)[i].isBot /\ ~Members(r)[i].isHeroLocked
              /\ Members(r)[j].isBot /\ ~Members(r)[j].isHeroLocked
              /\ \E h \in Range(ALL_HERO_IDS) :
                   HandleLockHero(Members(r)[i].openId, h, TRUE) )
       => /\ \A i, j \in 1..2 :
               (~MembersAfter(r)[i].isBot /\ MembersAfter(r)[j].isBot) =>
                 /\ MembersAfter(r)[j].isHeroLocked
                 /\ MembersAfter(r)[j].selectedHeroId \in Range(ALL_HERO_IDS)
                 /\ MembersAfter(r)[j].selectedHeroId # MembersAfter(r)[i].selectedHeroId
          /\ rooms'[r].status = "playing"]_vars

\* Hero h is held locked in room r by a member other than u.
HeldByOther(r, u, h) ==
  \E i \in 1..Len(Members(r)) :
    /\ Members(r)[i].openId # u
    /\ Members(r)[i].isHeroLocked
    /\ Members(r)[i].selectedHeroId = h

\* C9: a lock request for a hero another member of the room holds locked fails
\* in setPlayerHeroLockStatus, the requester is sent an error and no room
\* changes; a requester who was unlocked stays unlocked with no hero.
C9_TakenHeroRejected ==
  [][\A r \in DOMAIN rooms : \A h \in getLockedCharacters(rooms, r) :
       \A u \in HumanIds :
         ( /\ getPlayerRoomId(rooms, u) = r
           /\ HeldByOther(r, u, h)
           /\ HandleLockHero(u, h, TRUE) )
         => /\ ~setPlayerHeroLockStatus(rooms, r, u, TRUE, h).ok
            /\ sent' = <<ErrorTo(u, "LOCK_FAILED")>>
            /\ rooms' = rooms
            /\ LET me == Members(r)[findIndex(Members(r), u)]
               IN  ~me.isHeroLocked =>
                     /\ ~LockedIn(MembersAfter(r), u)
                     /\ me.selectedHeroId = NULL]_vars

\* C9's case: a member has just been refused a lock while another member holds
\* a hero locked and the member itself holds none.
C9_Witness ==
  \E r \in DOMAIN rooms : \E u \in HumanIds :
    /\ sent = <<ErrorTo(u, "LOCK_FAILED")>>
    /\ findIndex(Members(r), u) # 0
    /\ ~LockedIn(Members(r), u)
    /\ \E h \in Range(ALL_HERO_IDS) : HeldByOther(r, u, h)

\* ------------------------------------------------------ wsApp.js, connection side

\* A message handed to socket k by send().
ToSocket(type, k) == [type |-> type, to |-> k]

\* clients.has(userId)
hasClient(cs, userId) == userId \in DOMAIN cs

\* clients.delete(userId)
deleteClient(cs, userId) == [u \in DOMAIN cs \ {userId} |-> cs[u]]

\* sendToClient(userId, message): the sends it makes, to the socket registered
\* for userId when that socket is OPEN.
sendToClient(cs, ss, userId, type) ==
  IF hasClient(cs, userId) /\ ss[cs[userId]].readyState = "OPEN"
  THEN <<ToSocket(type, cs[userId])>>
  ELSE <<>>

\* broadcastToAll(message, excludeUserId), in ascending order of user id (the
\* order of the sends within one call is not observed by any property).
RECURSIVE broadcastToAllFrom(_, _, _, _, _)
broadcastToAllFrom(cs, ss, todo, type, excludeUserId) ==
  IF todo = {} THEN <<>>
  ELSE LET u == CHOOSE x \in todo : TRUE
       IN  (IF u # excludeUserId THEN sendToClient(cs, ss, u, type) ELSE <<>>)
           \o broadcastToAllFrom(cs, ss, todo \ {u}, type, excludeUserId)

broadcastToAll(cs, ss, type, excludeUserId) ==
  broadcastToAllFrom(cs, ss, DOMAIN cs, type, excludeUserId)

\* The registry part of handleConnection as a plausible slip would write it: the
\* superseded socket is notified and dropped from the Map but never closed.
supersede_NoClose(cs, ss, timers, userId) ==
  IF hasClient(cs, userId)
  THEN LET oldWs == cs[userId]
           open == ss[oldWs].readyState = "OPEN"
       IN  [clients |-> deleteClient(cs, userId),
            timers |-> timers,
            sent |-> IF open THEN <<ToSocket("CONNECTION_REPLACED", oldWs)>> ELSE <<>>]
  ELSE [clients |-> cs, timers |-> timers, sent |-> <<>>]

\* handleConnection, the duplicate-connection block: an OPEN old socket is sent
\* CONNECTION_REPLACED and gets a 100 ms timer that closes it; the old record is
\* deleted from the Map at once.
supersede(cs, ss, timers, userId) ==
  IF hasClient(cs, userId)
  THEN LET oldWs == cs[userId]
           open == ss[oldWs].readyState = "OPEN"
       IN  [clients |-> deleteClient(cs, userId),
            timers |-> IF open THEN timers \cup {oldWs} ELSE timers,
            sent |-> IF open THEN <<ToSocket("CONNECTION_REPLACED", oldWs)>> ELSE <<>>]
  ELSE [clients |-> cs, timers |-> timers, sent |-> <<>>]

\* handleConnection(ws, req) for a request whose userId the upgrade handler set.
HandleConnection(userId) ==
  /\ UNCHANGED authVars
  /\ Len(sockets) < MaxSockets
  /\ UNCHANGED roomVars
  /\ LET ws == Len(sockets) + 1
         old == supersede(clients, sockets, closeTimers, userId)
         cs2 == (userId :> ws) @@ old.clients
         ss2 == Append(sockets,
                  [userId |-> userId, readyState |-> "OPEN", isAlive |-> TRUE,
                   swept |-> FALSE])
     IN  /\ clients' = cs2
         /\ sockets' = ss2
         /\ closeTimers' = old.timers
         /\ sent' = old.sent \o sendToClient(cs2, ss2, userId, "CONNECTED")
                      \o broadcastToAll(cs2, ss2, "USER_STATUS", userId)

\* handleClose(userId): the Map entry of the user is deleted, whichever socket it
\* holds, and the others are told the user went offline.
handleClose(cs, ss, userId) ==
  LET cs2 == deleteClient(cs, userId)
  IN  [clients |-> cs2, sent |-> broadcastToAll(cs2, ss, "USER_STATUS", userId)]

\* The grace timer of a superseded socket fires: oldWs.close(1008, ...).  close()
\* on an OPEN socket starts the closing handshake; on any other it does nothing.
CloseTimerFires(k) ==
  /\ UNCHANGED authVars
  /\ k \in closeTimers
  /\ closeTimers' = closeTimers \ {k}
  /\ sockets' = IF sockets[k].readyState = "OPEN"
                THEN [sockets EXCEPT ![k].readyState = "CLOSING"]
                ELSE sockets
  /\ sent' = <<>>
  /\ UNCHANGED clients
  /\ UNCHANGED roomVars

\* The 'close' event of socket k, which the server closed or terminated:
\* ws.on('close', () => handleClose(userId)).
CloseCompletes(k) ==
  /\ UNCHANGED authVars
  /\ k \in 1..Len(sockets)
  /\ sockets[k].readyState = "CLOSING"
  /\ LET ss2 == [sockets EXCEPT ![k].readyState = "CLOSED"]
         h == handleClose(clients, ss2, sockets[k].userId)
     IN  /\ sockets' = ss2
         /\ clients' = h.clients
         /\ sent' = h.sent
  /\ UNCHANGED closeTimers
  /\ UNCHANGED roomVars

\* The 'close' event of socket k when the peer closed it or the network dropped.
PeerCloses(k) ==
  /\ UNCHANGED authVars
  /\ k \in 1..Len(sockets)
  /\ sockets[k].readyState = "OPEN"
  /\ LET ss2 == [sockets EXCEPT ![k].readyState = "CLOSED"]
         h == handleClose(clients, ss2, sockets[k].userId)
     IN  /\ sockets' = ss2
         /\ clients' = h.clients
         /\ sent' = h.sent
  /\ UNCHANGED closeTimers
  /\ UNCHANGED roomVars

\* ws.terminate(): nothing on a CLOSED socket, otherwise the socket is destroyed
\* and its 'close' event follows.
terminate(ws) ==
  [ws EXCEPT !.readyState = IF @ = "CLOSED" THEN "CLOSED" ELSE "CLOSING"]

\* The heartbeat callback with a single phase: every socket it visits is
\* terminated unless it showed life, without a sweep of warning.
sweep_SinglePhase(ws) ==
  IF ws.isAlive = FALSE \/ ~ws.swept
  THEN [terminate(ws) EXCEPT !.isAlive = FALSE, !.swept = TRUE]
  ELSE [ws EXCEPT !.isAlive = FALSE, !.swept = TRUE]

\* The body of the heartbeat's clients.forEach for one registered socket: a
\* socket still marked not alive is terminated, any other is marked not alive.
sweep(ws) ==
  IF ws.isAlive = FALSE
  THEN [terminate(ws) EXCEPT !.swept = TRUE]
  ELSE [ws EXCEPT !.isAlive = FALSE, !.swept = TRUE]

\* The heartbeat interval callback.
Heartbeat ==
  /\ UNCHANGED authVars
  /\ DOMAIN clients # {}
  /\ LET registered == {clients[u] : u \in DOMAIN clients}
     IN  sockets' =
           [k \in 1..Len(sockets) |->
              IF k \in registered THEN sweep(sockets[k]) ELSE sockets[k]]
  /\ sent' = <<>>
  /\ UNCHANGED <<clients, closeTimers>>
  /\ UNCHANGED roomVars

\* ws.on('message') for a PING message on socket k, whose handler closes over
\* the userId of the connection: the socket is marked alive and the PONG goes to
\* whatever socket is registered for that user.
HandlePing(k) ==
  /\ UNCHANGED authVars
  /\ k \in 1..Len(sockets)
  /\ sockets[k].readyState = "OPEN"
  /\ sockets' = [sockets EXCEPT ![k].isAlive = TRUE, ![k].swept = FALSE]
  /\ sent' = sendToClient(clients, sockets', sockets[k].userId, "PONG")
  /\ UNCHANGED <<clients, closeTimers>>
  /\ UNCHANGED roomVars

\* ws.on('pong') on socket k: the socket is marked alive.
HandlePong(k) ==
  /\ UNCHANGED authVars
  /\ k \in 1..Len(sockets)
  /\ sockets[k].readyState = "OPEN"
  /\ sockets' = [sockets EXCEPT ![k].isAlive = TRUE, ![k].swept = FALSE]
  /\ sent' = <<>>
  /\ UNCHANGED <<clients, closeTimers>>
  /\ UNCHANGED roomVars

ConnNext ==
  \/ \E userId \in HumanIds : HandleConnection(userId)
  \/ \E k \in 1..MaxSockets : CloseTimerFires(k)
  \/ \E k \in 1..MaxSockets : CloseCompletes(k)
  \/ \E k \in 1..MaxSockets : PeerCloses(k)
  \/ Heartbeat
  \/ \E k \in 1..MaxSockets : HandlePing(k)
  \/ \E k \in 1..MaxSockets : HandlePong(k)

\* Timers fire and a closing handshake ends (the ws library bounds it by its own
\* close timeout); nothing else is forced to happen.
ConnFairness ==
  /\ \A k \in 1..MaxSockets : WF_vars(CloseTimerFires(k))
  /\ \A k \in 1..MaxSockets : WF_vars(CloseCompletes(k))

ConnSpec == Init /\ [][ConnNext]_vars /\ ConnFairness

\* ------------------------------------------------------ properties of the registry

\* Socket k is the newest socket of its user.
Newest(k) ==
  \A j \in 1..Len(sockets) : sockets[j].userId = sockets[k].userId => j <= k

\* Socket k was followed by another socket of the same user.
Followed(k) ==
  \E j \in 1..Len(sockets) : j > k /\ sockets[j].userId = sockets[k].userId

\* C3: after a takeover, and whatever became of the older sockets of the user,
\* the user's newest socket, as long as it is open, is the one the registry
\* holds for the user, so that sendToClient reaches it.
C3_TakeoverKeepsUserReachable ==
  \A k \in 1..Len(sockets) :
    ( /\ sockets[k].readyState = "OPEN"
      /\ Newest(k)
      /\ \E j \in 1..Len(sockets) : j < k /\ sockets[j].userId = sockets[k].userId )
    => /\ hasClient(clients, sockets[k].userId)
       /\ clients[sockets[k].userId] = k
       /\ sendToClient(clients, sockets, sockets[k].userId, "PONG")
            = <<ToSocket("PONG", k)>>

\* C10, the step: handleConnection for a user whose registered socket is open
\* sends that socket CONNECTION_REPLACED before anything else, arms the timer
\* that closes it and registers the new socket.
C10_SupersedeStep ==
  \A u \in HumanIds :
    ( /\ hasClient(clients, u)
      /\ sockets[clients[u]].readyState = "OPEN"
      /\ HandleConnection(u) )
    => /\ Len(sent') > 0
       /\ sent'[1] = ToSocket("CONNECTION_REPLACED", clients[u])
       /\ clients[u] \in closeTimers'
       /\ clients'[u] = Len(sockets) + 1
       /\ sockets'[clients[u]].readyState = "OPEN"

\* C10, the registry: the socket registered for a user is never one that a
\* later socket of the user has replaced, and a socket whose timer is armed is
\* none the registry holds.
C10_RegistryHoldsNewest ==
  /\ \A u \in DOMAIN clients :
       /\ sockets[clients[u]].userId = u
       /\ Newest(clients[u])
  /\ \A k \in closeTimers : Followed(k) /\ \A u \in DOMAIN clients : clients[u] # k

\* C10: a socket superseded while registered and open is sent
\* CONNECTION_REPLACED, is closed once the grace delay is over, is never again
\* the socket the registry holds for the user, and ends up closed.
C10_SupersedeProtocol ==
  /\ [][C10_SupersedeStep]_vars
  /\ []C10_RegistryHoldsNewest
  /\ \A k \in 1..MaxSockets :
       (k \in closeTimers) ~> (k <= Len(sockets) /\ sockets[k].readyState = "CLOSED")

\* C10's case: a superseded socket is being closed by its grace timer (the
\* heartbeat only terminates sockets it has marked not alive) while the newer
\* socket of the user is registered.
C10_Witness ==
  \E k \in 1..Len(sockets) :
    /\ sockets[k].readyState = "CLOSING"
    /\ sockets[k].isAlive
    /\ k \notin closeTimers
    /\ hasClient(clients, sockets[k].userId)
    /\ clients[sockets[k].userId] > k

\* Socket k is the one the registry holds for its user.
Registered(k) ==
  hasClient(clients, sockets[k].userId) /\ clients[sockets[k].userId] = k

\* C11: a heartbeat sweep terminates an open socket exactly when the socket is
\* registered and an earlier sweep has visited it since it was registered or
\* last sent a message or a pong; so the first sweep after registration or
\* activity never terminates, and every socket's alive mark is the negation of
\* "swept since it last showed life".
C11_TwoPhaseSweep ==
  /\ [](\A k \in 1..Len(sockets) : sockets[k].isAlive = ~sockets[k].swept)
  /\ [][Heartbeat =>
          \A k \in 1..Len(sockets) :
            sockets[k].readyState = "OPEN" =>
              ( (sockets'[k].readyState # "OPEN")
                  <=> (Registered(k) /\ sockets[k].swept) )]_vars
  /\ [][\A k \in 1..Len(sockets) :
          (sockets[k].readyState = "OPEN" /\ (HandlePing(k) \/ HandlePong(k)))
            => ~sockets'[k].swept]_vars

\* C11's case: a registered socket was swept twice without showing life and is
\* being terminated, while another socket that was swept is still open.
C11_Witness ==
  \E k, j \in 1..Len(sockets) :
    /\ k # j
    /\ sockets[k].readyState = "CLOSING" /\ sockets[k].swept /\ Registered(k)
    /\ sockets[j].readyState = "OPEN" /\ sockets[j].swept /\ Registered(j)

\* ------------------------------------------------------ room broadcasts, delivered

\* broadcastToRoom's forEach without the try/catch around send: the first send
\* that throws ends the loop and the exception leaves the call.
RECURSIVE sendToMembers_NoCatch(_, _, _, _, _, _)
sendToMembers_NoCatch(cs, ss, players, type, excludeWs, throwing) ==
  IF players = <<>> THEN [threw |-> FALSE, sent |-> <<>>]
  ELSE LET targetUserId == Head(players).openId
           live == /\ hasClient(cs, targetUserId)
                   /\ cs[targetUserId] # excludeWs
                   /\ ss[cs[targetUserId]].readyState = "OPEN"
           rest == sendToMembers_NoCatch(cs, ss, Tail(players), type, excludeWs, throwing)
       IN  IF ~live THEN rest
           ELSE IF cs[targetUserId] \in throwing THEN [threw |-> TRUE, sent |-> <<>>]
           ELSE [threw |-> rest.threw,
                 sent |-> <<ToSocket(type, cs[targetUserId])>> \o rest.sent]

\* broadcastToRoom's room.players.forEach: each member's socket is looked up in
\* clients and, when it is there, not the excluded one and OPEN, sent the
\* message; a send that throws (the sockets in `throwing`) is caught and logged.
\* The result is the list of sends that went through and whether the call threw.
RECURSIVE sendToMembers(_, _, _, _, _, _)
sendToMembers(cs, ss, players, type, excludeWs, throwing) ==
  IF players = <<>> THEN [threw |-> FALSE, sent |-> <<>>]
  ELSE LET targetUserId == Head(players).openId
           live == /\ hasClient(cs, targetUserId)
                   /\ cs[targetUserId] # excludeWs
                   /\ ss[cs[targetUserId]].readyState = "OPEN"
           rest == sendToMembers(cs, ss, Tail(players), type, excludeWs, throwing)
       IN  IF ~live THEN rest
           ELSE IF cs[targetUserId] \in throwing THEN rest
           ELSE [threw |-> rest.threw,
                 sent |-> <<ToSocket(type, cs[targetUserId])>> \o rest.sent]

\* broadcastToRoom walking the connected users instead of the room's members.
deliverToRoom_AllClients(rs, cs, ss, roomId, type, excludeWs, throwing) ==
  IF ~hasRoom(rs, roomId) \/ Len(rs[roomId].players) = 0
  THEN [threw |-> FALSE, sent |-> <<>>]
  ELSE sendToMembers(cs, ss, <<[openId |-> "H"], [openId |-> "M"]>>,
                     type, excludeWs, throwing)

\* broadcastToRoom(roomId, messageData, excludeWs) down to the sockets.
deliverToRoom(rs, cs, ss, roomId, type, excludeWs, throwing) ==
  IF ~hasRoom(rs, roomId) \/ Len(rs[roomId].players) = 0
  THEN [threw |-> FALSE, sent |-> <<>>]
  ELSE sendToMembers(cs, ss, rs[roomId].players, type, excludeWs, throwing)

\* Some handler calls broadcastToRoom(roomId, message, excludeWs) while the
\* sends to the sockets in `throwing` throw.  excludeWs = 0 stands for null.
RoomBroadcast(roomId, excludeWs, throwing) ==
  /\ UNCHANGED authVars
  /\ hasRoom(rooms, roomId)
  /\ excludeWs \in 0..Len(sockets)
  /\ throwing \subseteq 1..Len(sockets)
  /\ LET d == deliverToRoom(rooms, clients, sockets, roomId, "ROOM_MSG", excludeWs, throwing)
     IN  sent' = d.sent \o (IF d.threw THEN <<ToSocket("THROWN", 0)>> ELSE <<>>)
  /\ UNCHANGED roomVars
  /\ UNCHANGED connVars

\* Rooms gaining and losing members while sockets come, go and are swept, and
\* broadcasts to the rooms in between.
DeliveryNext ==
  \/ \E hostId \in HumanIds, maxPlayers \in ReqCaps : HandleCreateRoom(hostId, maxPlayers)
  \/ \E roomId \in RoomIds, playerId \in HumanIds : HandleAddPlayerToRoom(roomId, playerId)
  \/ \E roomId \in RoomIds, playerId \in HumanIds : HandleLeaveRoom(roomId, playerId)
  \/ \E userId \in HumanIds : HandleConnection(userId)
  \/ \E k \in 1..MaxSockets : PeerCloses(k)
  \/ Heartbeat
  \/ \E roomId \in RoomIds, excludeWs \in 0..MaxSockets, throwing \in SUBSET (1..MaxSockets) :
       RoomBroadcast(roomId, excludeWs, throwing)

DeliverySpec == Init /\ [][DeliveryNext]_vars

\* The sockets a broadcast to room r has to reach: those registered for a
\* current member and OPEN.
LiveMemberSockets(r) ==
  {clients[Members(r)[i].openId] :
     i \in {j \in 1..Len(Members(r)) :
              /\ hasClient(clients, Members(r)[j].openId)
              /\ sockets[clients[Members(r)[j].openId]].readyState = "OPEN"}}

\* C12: broadcastToRoom sends the message once to each socket that is
\* registered for a current member of the room, OPEN and not the excluded one;
\* a send that throws costs only its own delivery, and the call never throws.
C12_BroadcastDelivery ==
  \A r \in DOMAIN rooms : \A excludeWs \in 0..Len(sockets) :
    \A throwing \in SUBSET (1..Len(sockets)) :
      LET d == deliverToRoom(rooms, clients, sockets, r, "ROOM_MSG", excludeWs, throwing)
      IN  /\ ~d.threw
          /\ {d.sent[i].to : i \in 1..Len(d.sent)}
               = (LiveMemberSockets(r) \ {excludeWs}) \ throwing
          /\ Len(d.sent) = Cardinality((LiveMemberSockets(r) \ {excludeWs}) \ throwing)
          /\ \A i \in 1..Len(d.sent) : d.sent[i].type = "ROOM_MSG"

\* C12's case: a broadcast to a room whose two members both have an open
\* registered socket has just reached exactly one of them (the other was
\* excluded or its send threw), and a third socket got nothing.
C12_Witness ==
  \E r \in DOMAIN rooms :
    /\ Cardinality(LiveMemberSockets(r)) = 2
    /\ Len(sockets) = 3
    /\ Len(sent) = 1
    /\ sent[1].type = "ROOM_MSG"
    /\ sent[1].to \in LiveMemberSockets(r)

\* ------------------------------------------------------ the map generator

Center == GridSize \div 2

Abs(n) == IF n < 0 THEN -n ELSE n

directionMap ==
  [up |-> [x |-> 0, y |-> -1], down |-> [x |-> 0, y |-> 1],
   left |-> [x |-> -1, y |-> 0], right |-> [x |-> 1, y |-> 0]]

getOppositeDirection(direction) ==
  CASE direction = "up" -> "down"
    [] direction = "down" -> "up"
    [] direction = "left" -> "right"
    [] direction = "right" -> "left"

areRoomsAdjacent(room1, room2) ==
  \/ Abs(room1.x - room2.x) = 1 /\ room1.y = room2.y
  \/ Abs(room1.y - room2.y) = 1 /\ room1.x = room2.x

getDirection(fromRoom, toRoom) ==
  IF toRoom.x > fromRoom.x THEN "right"
  ELSE IF toRoom.x < fromRoom.x THEN "left"
  ELSE IF toRoom.y > fromRoom.y THEN "down"
  ELSE "up"

\* Manhattan distance between two cells.
distance(a, b) == Abs(a.x - b.x) + Abs(a.y - b.y)

\* createPathBetweenRooms adding the exit on the side of the current room only.
RECURSIVE createPath_OneWay(_, _, _, _)
createPath_OneWay(m, current, endRoom, visited) ==
  IF m[current].id = m[endRoom].id THEN [ok |-> TRUE, rooms |-> m]
  ELSE LET neighbors == {i \in 1..Len(m) :
                           areRoomsAdjacent(m[current], m[i]) /\ m[i].id \notin visited}
       IN  IF neighbors = {} THEN [ok |-> FALSE, rooms |-> m]
           ELSE LET nextRoom ==
                      CHOOSE i \in neighbors :
                        \A j \in neighbors :
                          \/ distance(m[i], m[endRoom]) < distance(m[j], m[endRoom])
                          \/ distance(m[i], m[endRoom]) = distance(m[j], m[endRoom]) /\ i <= j
                    direction == getDirection(m[current], m[nextRoom])
                    m2 == [m EXCEPT ![current].exits = @ \cup {direction}]
                IN  createPath_OneWay(m2, nextRoom, endRoom, visited \cup {m[nextRoom].id})

\* The loop of createPathBetweenRooms from `current` on: the unvisited neighbour
\* nearest to the end room (the first of them in array order on a tie, the sort
\* being stable) is the next room; the exit towards it and its exit back are
\* added.  m is the room array, current and endRoom are positions in it.
RECURSIVE createPath(_, _, _, _)
createPath(m, current, endRoom, visited) ==
  IF m[current].id = m[endRoom].id THEN [ok |-> TRUE, rooms |-> m]
  ELSE LET neighbors == {i \in 1..Len(m) :
                           areRoomsAdjacent(m[current], m[i]) /\ m[i].id \notin visited}
       IN  IF neighbors = {} THEN [ok |-> FALSE, rooms |-> m]
           ELSE LET nextRoom ==
                      CHOOSE i \in neighbors :
                        \A j \in neighbors :
                          \/ distance(m[i], m[endRoom]) < distance(m[j], m[endRoom])
                          \/ distance(m[i], m[endRoom]) = distance(m[j], m[endRoom]) /\ i <= j
                    direction == getDirection(m[current], m[nextRoom])
                    oppositeDirection == getOppositeDirection(direction)
                    m2 == [m EXCEPT ![current].exits = @ \cup {direction},
                                    ![nextRoom].exits = @ \cup {oppositeDirection}]
                IN  createPath(m2, nextRoom, endRoom, visited \cup {m[nextRoom].id})

createPathBetweenRooms(m, startRoom, endRoom) ==
  createPath(m, startRoom, endRoom, {m[startRoom].id})

\* roomGraph of ensureRoomConnections: i and j are linked when i has an exit
\* towards the cell of j and j has the opposite exit.
roomGraph(m) ==
  {<<i, j>> \in (1..Len(m)) \X (1..Len(m)) :
     \E exitDir \in m[i].exits :
       /\ m[j].x = m[i].x + directionMap[exitDir].x
       /\ m[j].y = m[i].y + directionMap[exitDir].y
       /\ getOppositeDirection(exitDir) \in m[j].exits}

\* The breadth-first search of ensureRoomConnections, as the set it visits.
RECURSIVE bfs(_, _)
bfs(graph, visited) ==
  LET more == {j \in {e[2] : e \in graph} \cup {e[1] : e \in graph} :
                 /\ j \notin visited
                 /\ \E i \in visited : <<i, j>> \in graph \/ <<j, i>> \in graph}
  IN  IF more = {} THEN visited ELSE bfs(graph, visited \cup more)

\* The forEach over the unconnected rooms: each is joined by a path to the
\* nearest room the search had visited (the first in array order on a tie).
RECURSIVE connectAll(_, _, _)
connectAll(m, unconnected, visited) ==
  IF unconnected = <<>> THEN m
  ELSE LET u == Head(unconnected)
           closest ==
             CHOOSE c \in visited :
               \A d \in visited :
                 \/ distance(m[u], m[c]) < distance(m[u], m[d])
                 \/ distance(m[u], m[c]) = distance(m[u], m[d]) /\ c <= d
       IN  connectAll(createPathBetweenRooms(m, u, closest).rooms, Tail(unconnected), visited)

ensureRoomConnections(m) ==
  LET starts == {i \in 1..Len(m) : m[i].x = Center /\ m[i].y = Center}
  IN  IF starts = {} THEN m
      ELSE LET startNode == CHOOSE i \in starts : \A j \in starts : i <= j
               visited == bfs(roomGraph(m), {startNode})
               unconnectedRooms == filterSeq([i \in 1..Len(m) |-> i],
                                             {i \in 1..Len(m) : i \notin visited})
           IN  connectAll(m, unconnectedRooms, visited)

\* The results generateRandomExits can give for an ordinary room: one to
\* three of the four directions.
ExitDraws == {d \in SUBSET {"up", "down", "left", "right"} : Cardinality(d) \in 1..3}

\* generateRandomExits(roomType), `draw` being the slice of the shuffled
\* directions.
generateRandomExits(roomType, draw) ==
  CASE roomType = "hall" -> {"up", "down", "left", "right"}
    [] roomType \in {"exit", "keyroom"} -> {}
    [] OTHER -> draw

GameModes == {"race", "nightmare"}

Positions == [x : 0..(GridSize - 1), y : 0..(GridSize - 1)]

\* outerPositions listing every cell but the centre.
outerPositions_EveryCell ==
  {p \in Positions : ~(p.x = Center /\ p.y = Center)}

outerPositions ==
  {p \in Positions :
     /\ p.x = 0 \/ p.x = GridSize - 1 \/ p.y = 0 \/ p.y = GridSize - 1
     /\ ~(p.x = Center /\ p.y = Center)}

innerPositions ==
  {p \in Positions :
     /\ p.x \in 1..(GridSize - 2) /\ p.y \in 1..(GridSize - 2)
     /\ ~(p.x = Center /\ p.y = Center)}

\* What indexing the empty innerPositions array gives (undefined).
NoPosition == [x |-> -1, y |-> -1]

centerRoom ==
  [id |-> 0, x |-> Center, y |-> Center, type |-> "hall",
   isRevealed |-> TRUE, exits |-> {"up", "down", "left", "right"}, hasKey |-> FALSE]

\* generateRooms(gameMode): exitPosition and keyPosition are the positions
\* the random indexes select (keyPosition is NoPosition when innerPositions has
\* no element to select: reading its x then throws and the catch block returns
\* the hall alone), draws is the stream of
\* generateRandomExits results.  The four ordinary room types get their exits
\* the same way, so one of them stands for all.
generateRooms(gameMode, exitPosition, keyPosition, draws) ==
  IF gameMode = "nightmare" /\ keyPosition = NoPosition THEN <<centerRoom>>
  ELSE
    LET exitExits ==
          (IF exitPosition.x = 0 THEN {"right"} ELSE {})
            \cup (IF exitPosition.x = GridSize - 1 THEN {"left"} ELSE {})
            \cup (IF exitPosition.y = 0 THEN {"down"} ELSE {})
            \cup (IF exitPosition.y = GridSize - 1 THEN {"up"} ELSE {})
        exitRoom == [id |-> 1, x |-> exitPosition.x, y |-> exitPosition.y,
                     type |-> "exit", isRevealed |-> FALSE, exits |-> exitExits,
                     hasKey |-> FALSE, isExit |-> TRUE,
                     isLocked |-> (gameMode = "nightmare")]
        keyRooms ==
          IF gameMode = "nightmare"
          THEN <<[id |-> 2, x |-> keyPosition.x, y |-> keyPosition.y,
                  type |-> "keyroom", isRevealed |-> FALSE,
                  exits |-> generateRandomExits("keyroom", {}), hasKey |-> TRUE]>>
          ELSE <<>>
        special == <<centerRoom, exitRoom>> \o keyRooms
        cells == [n \in 1..(GridSize * GridSize) |->
                    [x |-> (n - 1) % GridSize, y |-> (n - 1) \div GridSize]]
        others == filterSeq(cells,
                    {n \in 1..(GridSize * GridSize) :
                       \A i \in 1..Len(special) :
                         ~(special[i].x = cells[n].x /\ special[i].y = cells[n].y)})
        rooms0 == special \o
                  [k \in 1..Len(others) |->
                     [id |-> Len(special) + k - 1, x |-> others[k].x, y |-> others[k].y,
                      type |-> "corridor", isRevealed |-> FALSE,
                      exits |-> generateRandomExits("corridor", draws[(k - 1) % DrawPeriod]),
                      hasKey |-> FALSE]]
    IN  ensureRoomConnections(rooms0)

\* One call of generateRooms on a fresh process; the returned room list is the
\* output.
GenerateRooms ==
  /\ UNCHANGED authVars
  /\ sent = <<>>
  /\ \E gameMode \in GameModes, exitPosition \in outerPositions,
        draws \in [0..(DrawPeriod - 1) -> ExitDraws] :
       \E keyPosition \in (IF gameMode = "nightmare" /\ innerPositions # {}
                           THEN innerPositions ELSE {NoPosition}) :
         /\ sent' = generateRooms(gameMode, exitPosition, keyPosition, draws)
         /\ UNCHANGED roomVars
         /\ UNCHANGED connVars

MapNext == GenerateRooms

MapSpec == Init /\ [][MapNext]_vars

\* A step of the traversal of the claim from room i to room j of map m.
MapStep(m, i, j) ==
  \E exitDir \in m[i].exits :
    /\ m[j].x = m[i].x + directionMap[exitDir].x
    /\ m[j].y = m[i].y + directionMap[exitDir].y
    /\ getOppositeDirection(exitDir) \in m[j].exits

RECURSIVE ReachableFrom(_, _)
ReachableFrom(m, seen) ==
  LET more == {j \in 1..Len(m) : j \notin seen /\ \E i \in seen : MapStep(m, i, j)}
  IN  IF more = {} THEN seen ELSE ReachableFrom(m, seen \cup more)

HallOf(m) == {i \in 1..Len(m) : m[i].type = "hall"}

\* C13: in the room list generateRooms returns, whatever the game mode and the
\* random choices, every room is reached from the hall by steps that the cell
\* left declares as an exit and the cell entered declares as the opposite exit.
C13_MapConnectivity ==
  sent # <<>> =>
    /\ \E h \in HallOf(sent) : sent[h].x = Center /\ sent[h].y = Center
    /\ ReachableFrom(sent, HallOf(sent)) = 1..Len(sent)

\* A nightmare-mode map whose key room, created without exits, was given
\* exits by the connection pass, and a full grid was returned.
C13_Witness ==
  /\ Len(sent) = GridSize * GridSize
  /\ \E i \in 1..Len(sent) : sent[i].type = "keyroom" /\ sent[i].exits # {}
  /\ \E i \in 1..Len(sent) : sent[i].type = "corridor" /\ Cardinality(sent[i].exits) = 4

\* ------------------------------------------------- joins, start and end

\* C14: for every waiting room and every player in its member list,
\* addPlayerToRoom returns the existing entry (no error) and leaves the member
\* list as it was, whatever the member count of the room.
C14_RejoinIdempotent ==
  \A r \in DOMAIN rooms :
    \A p \in {Members(r)[i].openId : i \in 1..Len(Members(r))} :
      rooms[r].status = "waiting" =>
        addPlayerToRoom(rooms, roomLocks.held, r, p, [isBot |-> FALSE])
          = [result |-> "EXISTING", rooms |-> rooms]

\* The conditions of the start guard for a request of userId on roomId.
StartAllowed(roomId, userId) ==
  /\ hasRoom(rooms, roomId)
  /\ rooms[roomId].hostId = userId
  /\ rooms[roomId].status = "waiting"
  /\ Len(rooms[roomId].players) = rooms[roomId].maxPlayers
  /\ \A i \in 1..Len(rooms[roomId].players) :
       rooms[roomId].players[i].openId # rooms[roomId].hostId
         => rooms[roomId].players[i].ready

\* C15: a room goes from waiting to character selection only in a start
\* request of its host made while the status is waiting, the member count
\* equals maxPlayers and every non-host member is ready; a start request that
\* misses one of these is answered with an error and leaves the room store and
\* the match states as they were.
C15_StartGuard ==
  /\ [][\A r \in DOMAIN rooms :
          ( /\ rooms[r].status = "waiting"
            /\ r \in DOMAIN rooms'
            /\ rooms'[r].status = "CHARACTER_SELECT" )
          => /\ StartAllowed(r, rooms[r].hostId)
             /\ HandleStartGame(r, rooms[r].hostId)]_vars
  /\ [][\A r \in RoomIds, u \in PlayerIds :
          (~StartAllowed(r, u) /\ HandleStartGame(r, u))
          => /\ Len(sent') = 1 /\ sent'[1].type = "HTTP" /\ sent'[1].code >= 400
             /\ rooms' = rooms
             /\ gameStates' = gameStates]_vars

\* A start request of the host has just moved a full, ready room to character
\* selection and created its match state.
C15_Witness ==
  \E r \in DOMAIN rooms :
    /\ rooms[r].status = "CHARACTER_SELECT"
    /\ r \in gameStates
    /\ Len(rooms[r].players) = rooms[r].maxPlayers
    /\ Len(rooms[r].players) >= 2
    /\ \A i \in 1..Len(rooms[r].players) :
         rooms[r].players[i].ready /\ ~rooms[r].players[i].isHeroLocked
    /\ sent = <<Http(200, "OK")>>

\* ------------------------------------------- a room with more than one bot

\* The bot identities of the rooms with several bots, and the capacity that
\* one human and these bots fill.
SeveralBots == {"B", "B2"}
BotRoomCapacity == Cardinality(SeveralBots) + 1

\* The lobby of one human host who fills the room with bots: the requests and
\* messages of the host, and the delays of triggerBotsToLock.
BotNext ==
  \/ HandleCreateRoom("H", BotRoomCapacity)
  \/ \E roomId \in RoomIds, botId \in SeveralBots : HandleAddBot("H", roomId, botId)
  \/ \E ready \in BOOLEAN : HandlePlayerReady("H", ready)
  \/ \E roomId \in RoomIds : HandleStartGame(roomId, "H")
  \/ \E heroId \in ReqHeroes, isLocked \in BOOLEAN : HandleLockHero("H", heroId, isLocked)
  \/ \E k \in 1..MaxTasks : BotTaskStep(k)
  \/ \E roomId \in RoomIds : HandleLeaveRoom(roomId, "H")

BotSpec == Init /\ [][BotNext]_vars

\* C16: whenever a bot member goes from unlocked to locked, every non-bot
\* member of its room is locked at that moment and no other member holds the
\* bot's hero locked, also when messages of the humans are handled during the
\* delays between the bot locks.
C16_BotLockTrigger ==
  [][\A r \in DOMAIN rooms \cap DOMAIN rooms' :
       \A i \in 1..Len(rooms'[r].players) :
         LET after == rooms'[r].players
             bot == after[i]
         IN  ( /\ bot.isBot
               /\ bot.isHeroLocked
               /\ \E j \in 1..Len(rooms[r].players) :
                    /\ rooms[r].players[j].openId = bot.openId
                    /\ ~rooms[r].players[j].isHeroLocked )
             => /\ \A j \in 1..Len(after) : ~after[j].isBot => after[j].isHeroLocked
                /\ \A j \in 1..Len(after) :
                     (j # i /\ after[j].isHeroLocked)
                       => after[j].selectedHeroId # bot.selectedHeroId]_vars

\* C17: addPlayerToRoom on a room whose status is not 'waiting' returns
\* ROOM_NOT_WAITING and leaves the room, its member list included, as it was,
\* for members and strangers alike; the join request is answered 403.  The
\* status values are those a room can carry, 'playing' included.
C17_JoinOutsideWaiting ==
  /\ [](\A r \in DOMAIN rooms, p \in PlayerIds, isBot \in BOOLEAN :
         \A st \in StatusValues \ {"waiting"} :
           LET rs == [rooms EXCEPT ![r].status = st]
           IN  addPlayerToRoom(rs, roomLocks.held, r, p, [isBot |-> isBot])
                 = [result |-> "ROOM_NOT_WAITING", rooms |-> rs])
  /\ [][\A r \in DOMAIN rooms, p \in HumanIds :
          (rooms[r].status # "waiting" /\ HandleAddPlayerToRoom(r, p))
          => /\ sent' = <<Http(403, "ROOM_NOT_WAITING")>>
             /\ rooms' = rooms]_vars

\* A join request has just been refused by a room in character selection that
\* had a free place.
C17_Witness ==
  \E r \in DOMAIN rooms :
    /\ rooms[r].status = "CHARACTER_SELECT"
    /\ Len(rooms[r].players) < rooms[r].maxPlayers
    /\ sent = <<Http(403, "ROOM_NOT_WAITING")>>

C19_EndOnlyFromPlaying ==
  /\ [](\A r \in RoomIds, results \in SUBSET PlayerIds, st \in StatusValues :
         \A gs \in {gameStates \cup {r}, gameStates \ {r}} :
           LET rs == IF hasRoom(rooms, r) THEN [rooms EXCEPT ![r].status = st] ELSE rooms
               e == endGame(rs, gs, r, results)
           IN  IF hasRoom(rooms, r) /\ st = "playing" /\ r \in gs
               THEN /\ e.ok
                    /\ e.rooms = [rs EXCEPT ![r].status = "ended",
                                            ![r].gameResults = e.rooms[r].gameResults]
                    /\ Len(e.rooms[r].gameResults) = 1
                    /\ \A i \in 1..Len(rs[r].players) :
                         rs[r].players[i].openId \in e.rooms[r].gameResults[1]
                    /\ e.rooms[r].gameResults[1] \subseteq
                         results \cup {rs[r].players[i].openId : i \in 1..Len(rs[r].players)}
                    /\ r \notin e.gameStates
                    /\ e.gameStates = gs \ {r}
               ELSE e = [ok |-> FALSE, rooms |-> rs, gameStates |-> gs])
  /\ [][\A r \in RoomIds, results \in SUBSET PlayerIds :
          ( /\ ~(hasRoom(rooms, r) /\ rooms[r].status = "playing" /\ r \in gameStates)
            /\ HandleEndGame(r, results) )
          => /\ sent' = <<Http(404, "NULL")>>
             /\ rooms' = rooms
             /\ gameStates' = gameStates]_vars

\* An end request has just been refused for a room in character selection
\* that has a match state.
C19_Witness ==
  \E r \in DOMAIN rooms :
    /\ rooms[r].status = "CHARACTER_SELECT"
    /\ r \in gameStates
    /\ rooms[r].gameResults = <<>>
    /\ sent = <<Http(404, "NULL")>>

\* C20: in every state, a room has a match state (an entry of the game state
\* store under its id) only if the room is stored and its status is 'playing'.
C20_MatchStateOnlyWhilePlaying ==
  \A r \in gameStates : hasRoom(rooms, r) /\ rooms[r].status = "playing"

\* --------------------------------------------------- sessions and handshake

\* The tokens createSession can generate: the user id and a random part.
Tokens == [userId : HumanIds, nonce : 1..TokenNonces]
\* The token of an upgrade request: one of these, or none.
NoToken == [userId |-> NULL, nonce |-> 0]
ReqTokens == Tokens \cup {NoToken}

\* The two Maps of sessionStore as one value.
SessionStore == [sessions |-> sessions, userIdToToken |-> userIdToToken]

dropKey(f, k) == [x \in DOMAIN f \ {k} |-> f[x]]

\* sessionStore.removeSession
removeSession(st, token) ==
  IF token = NoToken \/ token \notin DOMAIN st.sessions THEN st
  ELSE [sessions |-> dropKey(st.sessions, token),
        userIdToToken |-> dropKey(st.userIdToToken, st.sessions[token].userId)]

\* setSession that maps the user to the new token without removing the
\* user's old session.
setSession_KeepsOld(st, token, sessionData) ==
  LET st1 == IF token \notin DOMAIN st.sessions
             THEN [st EXCEPT !.userIdToToken =
                     (sessionData.userId :> token) @@ dropKey(@, sessionData.userId)]
             ELSE st
  IN  [st1 EXCEPT !.sessions = (token :> sessionData) @@ @]

\* sessionStore.setSession
setSession(st, token, sessionData) ==
  LET st1 == IF token \notin DOMAIN st.sessions
             THEN LET st0 == IF sessionData.userId \in DOMAIN st.userIdToToken
                             THEN removeSession(st, st.userIdToToken[sessionData.userId])
                             ELSE st
                  IN  [st0 EXCEPT !.userIdToToken = (sessionData.userId :> token) @@ @]
             ELSE st
  IN  [st1 EXCEPT !.sessions = (token :> sessionData) @@ @]

\* sessionStore.removeSessionsByUserId
removeSessionsByUserId(st, userId) ==
  IF userId \notin DOMAIN st.userIdToToken THEN st
  ELSE removeSession(st, st.userIdToToken[userId])

\* sessionStore.removeExpiredSessions: the loop over the entries of sessions,
\* `todo` being the tokens not visited yet.
RECURSIVE removeExpiredFrom(_, _, _)
removeExpiredFrom(st, todo, t) ==
  IF todo = {} THEN st
  ELSE LET token == CHOOSE x \in todo : TRUE
       IN  removeExpiredFrom(
             IF token \in DOMAIN st.sessions /\ st.sessions[token].expiresAt < t
             THEN removeSession(st, token) ELSE st,
             todo \ {token}, t)

removeExpiredSessions(st, t) == removeExpiredFrom(st, DOMAIN st.sessions, t)

\* sessionManager.createSession: the session is stored under the new token.
createSession(st, t, token) ==
  setSession(st, token, [userId |-> token.userId, expiresAt |-> t + SessionTTL])

\* verifySession that skips the expiry check.
verifySession_NoExpiry(st, t, token) ==
  IF token = NoToken THEN [session |-> NoToken, store |-> st]
  ELSE IF token \notin DOMAIN st.sessions THEN [session |-> NoToken, store |-> st]
  ELSE [session |-> token, store |-> setSession(st, token, st.sessions[token])]

\* sessionManager.verifySession: returns [session, store]; session is the token
\* of the session found, or NoToken for null.  lastAccessedAt is not kept.
verifySession(st, t, token) ==
  IF token = NoToken THEN [session |-> NoToken, store |-> st]
  ELSE IF token \notin DOMAIN st.sessions THEN [session |-> NoToken, store |-> st]
  ELSE IF st.sessions[token].expiresAt < t
    THEN [session |-> NoToken, store |-> removeSession(st, token)]
  ELSE [session |-> token, store |-> setSession(st, token, st.sessions[token])]

\* POST /login: createSession for the user with a token not in use.
Login(userId, nonce) ==
  LET token == [userId |-> userId, nonce |-> nonce]
      st == createSession(SessionStore, now, token)
  IN  /\ token \notin DOMAIN sessions
      /\ sessions' = st.sessions
      /\ userIdToToken' = st.userIdToToken
      /\ sent' = <<Http(200, "OK")>>
      /\ UNCHANGED now
      /\ UNCHANGED roomVars
      /\ UNCHANGED connVars

\* POST /logout: sessionManager.removeSession(token)
Logout(token) ==
  LET st == removeSession(SessionStore, token)
  IN  /\ token \in DOMAIN sessions
      /\ sessions' = st.sessions
      /\ userIdToToken' = st.userIdToToken
      /\ sent' = <<Http(200, "OK")>>
      /\ UNCHANGED now
      /\ UNCHANGED roomVars
      /\ UNCHANGED connVars

\* cleanupExpiredSessions
CleanupExpiredSessions ==
  LET st == removeExpiredSessions(SessionStore, now)
  IN  /\ sessions' = st.sessions
      /\ userIdToToken' = st.userIdToToken
      /\ sent' = <<>>
      /\ UNCHANGED now
      /\ UNCHANGED roomVars
      /\ UNCHANGED connVars

\* Time passes.
Tick ==
  /\ now < MaxTime
  /\ now' = now + 1
  /\ sent' = <<>>
  /\ UNCHANGED <<sessions, userIdToToken>>
  /\ UNCHANGED roomVars
  /\ UNCHANGED connVars

\* The 'upgrade' handler of the HTTP server for a request with `token` in its
\* query: 401 without a token or without a session, otherwise the handshake
\* and handleConnection for session.userId.
Upgrade(token) ==
  LET v == verifySession(SessionStore, now, token)
  IN  IF token = NoToken \/ v.session = NoToken
      THEN /\ sent' = <<Http(401, "UNAUTHORIZED")>>
           /\ sessions' = v.store.sessions
           /\ userIdToToken' = v.store.userIdToToken
           /\ UNCHANGED now
           /\ UNCHANGED roomVars
           /\ UNCHANGED connVars
      ELSE /\ v.store = SessionStore
           /\ HandleConnection(sessions[v.session].userId)

AuthNext ==
  \/ \E userId \in HumanIds, nonce \in 1..TokenNonces : Login(userId, nonce)
  \/ \E token \in Tokens : Logout(token)
  \/ CleanupExpiredSessions
  \/ Tick
  \/ \E token \in ReqTokens : Upgrade(token)
  \/ \E k \in 1..MaxSockets : PeerCloses(k)

AuthSpec == Init /\ [][AuthNext]_vars

\* The store holds under `token` a session of userId that has not expired.
LiveSession(token, userId) ==
  /\ token \in DOMAIN sessions
  /\ sessions[token].userId = userId
  /\ ~(sessions[token].expiresAt < now)

\* C21: a socket becomes the registered connection of a user only in an upgrade
\* request whose token names a stored, unexpired session of that user; an
\* upgrade request without token, or with a token that is unknown or expired,
\* is answered 401 and leaves the registry and the sockets as they were.
C21_HandshakeAdmission ==
  /\ [][\A u \in HumanIds :
          ( /\ hasClient(clients', u)
            /\ ~hasClient(clients, u) \/ clients'[u] # clients[u] )
          => \E token \in DOMAIN sessions :
               LiveSession(token, u) /\ Upgrade(token)]_vars
  /\ [][\A token \in ReqTokens :
          ( /\ ~(\E u \in HumanIds : LiveSession(token, u))
            /\ Upgrade(token) )
          => /\ sent' = <<Http(401, "UNAUTHORIZED")>>
             /\ UNCHANGED connVars]_vars

\* A user is registered, and a later upgrade request with an expired token
\* has just been refused.
C21_Witness ==
  /\ sent = <<Http(401, "UNAUTHORIZED")>>
  /\ \E u \in HumanIds : hasClient(clients, u)
  /\ now > SessionTTL

\* C22: a join, ready or start request that has changed the room is answered
\* with a success response, whatever happens while its notification is
\* broadcast.
C22_NotificationFailureNotReported ==
  [][\A r \in RoomIds, p \in HumanIds :
       ( /\ rooms' # rooms
         /\ \/ HandleAddPlayerToRoom(r, p)
            \/ \E ready \in BOOLEAN : HandleUpdatePlayerReady(r, p, ready)
            \/ HandleStartGame(r, p) )
       => \E i \in 1..Len(sent') :
            sent'[i].type = "HTTP" /\ sent'[i].code < 400]_vars

(***************************************************************************)
(* capacity range                                                          *)
(***************************************************************************)

\* C23: in every reachable state every room's maxPlayers is an integer in
\* [2,10]: createRoom clamps the requested capacity and no later operation,
\* handleUpdateRoom included, takes it outside the range
C23_CapacityRange ==
  \A r \in DOMAIN rooms : rooms[r].maxPlayers \in MinCapacity..MaxCapacity

(***************************************************************************)
(* ready toggle                                                            *)
(***************************************************************************)

\* The ready flags of a member list, by member id.
ReadyFlags(players) ==
  {<<players[i].openId, players[i].ready>> : i \in 1..Len(players)}

RoomStatuses == {"waiting", "CHARACTER_SELECT", "playing", "ended"}

\* C24: in a waiting room, updatePlayerReady(room, member, v) called twice
\* with the same v leaves the room as one call does, returns no error on
\* either call, keeps the member list's length and ids, and changes no flag
\* of any other member
C24_ReadyIdempotent ==
  \A r \in DOMAIN rooms, p \in PlayerIds, v \in BOOLEAN :
    (rooms[r].status = "waiting" /\ findIndex(rooms[r].players, p) # 0) =>
      LET once == updatePlayerReady(rooms, r, p, v)
          twice == updatePlayerReady(once.rooms, r, p, v)
          before == rooms[r].players
          after == twice.rooms[r].players
      IN  /\ once.ok /\ twice.ok
          /\ twice.rooms = once.rooms
          /\ Len(after) = Len(before)
          /\ \A i \in 1..Len(before) :
                IF before[i].openId = p
                THEN after[i] = [before[i] EXCEPT !.ready = v]
                ELSE after[i] = before[i]

\* A waiting room with two members where the ready request has acted: one
\* member is ready, so repeating the request with TRUE is the second call and
\* a request with FALSE changes the flag.
C24_Witness ==
  \E r \in DOMAIN rooms :
    /\ rooms[r].status = "waiting"
    /\ Len(rooms[r].players) = 2
    /\ \E i \in 1..2 : rooms[r].players[i].ready
    /\ \E i \in 1..Len(sent) : sent[i].event = "PLAYER_READY_CHANGED"

\* C25: updatePlayerReady on a room whose status is not 'waiting', or for a
\* user who is not a member, returns failure and leaves the store (every
\* member's ready flag included) unchanged; a ready request handled while the
\* room is not waiting changes no ready flag
C25_ReadyOnlyWhileWaiting ==
  /\ [](\A r \in DOMAIN rooms, p \in PlayerIds, v \in BOOLEAN, st \in RoomStatuses :
         LET rs == [rooms EXCEPT ![r].status = st]
             u == updatePlayerReady(rs, r, p, v)
         IN  (st # "waiting" \/ findIndex(rs[r].players, p) = 0) =>
               /\ ~u.ok
               /\ u.rooms = rs)
  /\ [][\A r \in DOMAIN rooms, p \in HumanIds, v \in BOOLEAN :
         ( /\ rooms[r].status # "waiting" \/ findIndex(rooms[r].players, p) = 0
           /\ HandlePlayerReady(p, v) \/ HandleUpdatePlayerReady(r, p, v) )
         => /\ r \in DOMAIN rooms'
            /\ ReadyFlags(rooms'[r].players) = ReadyFlags(rooms[r].players)]_vars

\* A ready request was refused: the room is in character selection with two
\* members, both still ready, and the last handler answered with 404.
C25_Witness ==
  \E r \in DOMAIN rooms :
    /\ rooms[r].status = "CHARACTER_SELECT"
    /\ Len(rooms[r].players) = 2
    /\ \A i \in 1..Len(rooms[r].players) : rooms[r].players[i].ready
    /\ sent = <<Http(404, "NULL")>>

(***************************************************************************)
(* room creation                                                           *)
(***************************************************************************)

\* An id generateRoomId may hand out that no stored room has.
UnusedRoomId == "r2"

\* The only member of a new room.
HostEntry(hostId) ==
  [openId |-> hostId, isHost |-> TRUE, ready |-> FALSE,
   isHeroLocked |-> FALSE, selectedHeroId |-> NULL, isBot |-> FALSE]

\* C26: createRoom fails without creating a room when the name or the host
\* identity is missing; otherwise the new room has status 'waiting' and a
\* member list holding exactly the host, with isHost true, ready false,
\* isHeroLocked false and selectedHeroId null. A create request answered
\* with 201 leaves such a room in the store.
C26_Create ==
  /\ [](\A name \in {"name", NULL}, hostId \in HumanIds \cup {NULL},
          maxPlayers \in {0, 1, 2, 4, 10, 11} :
         LET c == createRoom(rooms, UnusedRoomId, name, hostId, maxPlayers)
         IN  IF name = NULL \/ hostId = NULL
             THEN ~c.ok /\ c.rooms = rooms
             ELSE /\ c.ok
                  /\ DOMAIN c.rooms = DOMAIN rooms \cup {UnusedRoomId}
                  /\ \A r \in DOMAIN rooms : c.rooms[r] = rooms[r]
                  /\ c.rooms[UnusedRoomId].status = "waiting"
                  /\ c.rooms[UnusedRoomId].hostId = hostId
                  /\ c.rooms[UnusedRoomId].players = <<HostEntry(hostId)>>)
  /\ [][\A hostId \in HumanIds, maxPlayers \in ReqCaps :
         HandleCreateRoom(hostId, maxPlayers) =>
           IF sent' = <<Http(201, "OK")>>
           THEN \E r \in DOMAIN rooms' \ DOMAIN rooms :
                  /\ DOMAIN rooms' = DOMAIN rooms \cup {r}
                  /\ rooms'[r].status = "waiting"
                  /\ rooms'[r].players = <<HostEntry(hostId)>>
           ELSE rooms' = rooms]_vars

\* A create request has just been answered with 201 and its room is stored.
C26_Witness ==
  /\ sent = <<Http(201, "OK")>>
  /\ \E r \in DOMAIN rooms :
       rooms[r].status = "waiting" /\ Len(rooms[r].players) = 1

(***************************************************************************)
(* broadcasts and membership                                               *)
(***************************************************************************)

\* The sockets a broadcast to room r with these arguments delivers to.
DeliveredTo(rs, cs, ss, r, excludeWs, throwing) ==
  LET d == deliverToRoom(rs, cs, ss, r, "ROOM_MSG", excludeWs, throwing)
  IN  {d.sent[i].to : i \in 1..Len(d.sent)}

\* C27: once removePlayerFromRoom has removed a member from a room, a
\* broadcastToRoom call for that room delivers nothing to that user, even
\* while the user's socket stays registered and open: right after the removal,
\* and in every state, a broadcast reaches no socket registered for a user
\* who is not a member of the room
C27_BroadcastCurrentMembership ==
  /\ [](\A r \in DOMAIN rooms, u \in DOMAIN clients :
         findIndex(rooms[r].players, u) = 0 =>
           \A excludeWs \in 0..Len(sockets), throwing \in SUBSET (1..Len(sockets)) :
             clients[u] \notin DeliveredTo(rooms, clients, sockets, r, excludeWs, throwing))
  /\ [][\A r \in DOMAIN rooms, p \in HumanIds :
         ( /\ findIndex(rooms[r].players, p) # 0
           /\ HandleLeaveRoom(r, p) )
         => /\ r \in DOMAIN rooms'
            /\ findIndex(rooms'[r].players, p) = 0
            /\ hasClient(clients', p) =>
                  \A excludeWs \in 0..Len(sockets') :
                    clients'[p] \notin
                      DeliveredTo(rooms', clients', sockets', r, excludeWs, {})]_vars

\* A member has just left a room that keeps another member; both users have
\* a registered open socket.
C27_Witness ==
  \E r \in DOMAIN rooms, u \in DOMAIN clients :
    /\ sent = <<Http(200, "OK")>>
    /\ findIndex(rooms[r].players, u) = 0
    /\ sockets[clients[u]].readyState = "OPEN"
    /\ u # rooms[r].hostId
    /\ Len(rooms[r].players) = 1
    /\ hasClient(clients, rooms[r].hostId)
    /\ sockets[clients[rooms[r].hostId]].readyState = "OPEN"
    /\ DeliveredTo(rooms, clients, sockets, r, 0, {}) = {clients[rooms[r].hostId]}

(***************************************************************************)
(* hero id and lock flag                                                   *)
(***************************************************************************)

\* C28: in every reachable state every member with selectedHeroId not null
\* has isHeroLocked = true, and unlocking through
\* setPlayerHeroLockStatus(locked = false) succeeds for a member and resets
\* selectedHeroId to null whatever heroId was passed
C28_HeroIdOnlyWhileLocked ==
  \A r \in DOMAIN rooms :
    /\ \A i \in 1..Len(rooms[r].players) :
         rooms[r].players[i].selectedHeroId # NULL => rooms[r].players[i].isHeroLocked
    /\ \A i \in 1..Len(rooms[r].players), heroId \in ReqHeroes :
         LET u == setPlayerHeroLockStatus(rooms, r, rooms[r].players[i].openId,
                                          FALSE, heroId)
         IN  /\ u.ok
             /\ u.rooms[r].players[i].selectedHeroId = NULL
             /\ ~u.rooms[r].players[i].isHeroLocked

\* An unlock request has just been applied: the broadcast reports the member
\* unlocked with no hero, while another member stays locked with a hero.
C28_Witness ==
  \E r \in DOMAIN rooms :
    /\ \E i \in 1..Len(sent) :
         /\ sent[i].type = "PLAYER_HERO_LOCKED"
         /\ ~sent[i].isLocked
         /\ sent[i].heroId = NULL
    /\ \E i, j \in 1..Len(rooms[r].players) :
         /\ rooms[r].players[i].isHeroLocked
         /\ rooms[r].players[i].selectedHeroId # NULL
         /\ ~rooms[r].players[j].isHeroLocked
         /\ rooms[r].players[j].selectedHeroId = NULL

(***************************************************************************)
(* hero lock broadcasts                                                    *)
(***************************************************************************)

\* The record of member p in a member list.
MemberOf(players, p) == players[findIndex(players, p)]

\* The handler's output holds a PLAYER_HERO_LOCKED broadcast to room r about
\* member p with this hero id and lock flag.
LockBroadcast(out, r, p, heroId, isLocked) ==
  \E i \in 1..Len(out) :
    /\ out[i].type = "PLAYER_HERO_LOCKED"
    /\ out[i].to = r
    /\ out[i].playerId = p
    /\ out[i].heroId = heroId
    /\ out[i].isLocked = isLocked

\* C29: every successful hero lock or unlock, by a human through
\* handleLockHero or by a bot through triggerBotsToLock, comes with a
\* PLAYER_HERO_LOCKED broadcast to the room carrying that member's id,
\* resulting hero id and resulting lock flag; a rejected lock request
\* produces no PLAYER_HERO_LOCKED broadcast and changes nothing
C29_LockBroadcast ==
  /\ [][\A userId \in HumanIds, heroId \in ReqHeroes, isLocked \in BOOLEAN :
         HandleLockHero(userId, heroId, isLocked) =>
           LET roomId == getPlayerRoomId(rooms, userId) IN
           IF /\ roomId # NULL
              /\ setPlayerHeroLockStatus(rooms, roomId, userId, isLocked, heroId).ok
           THEN LET me == MemberOf(rooms'[roomId].players, userId)
                IN  /\ me.isHeroLocked = isLocked
                    /\ LockBroadcast(sent', roomId, userId,
                                     me.selectedHeroId, me.isHeroLocked)
           ELSE /\ rooms' = rooms
                /\ \A i \in 1..Len(sent') : sent'[i].type # "PLAYER_HERO_LOCKED"]_vars
  /\ [][\A r \in DOMAIN rooms, p \in PlayerIds :
         ( /\ r \in DOMAIN rooms'
           /\ findIndex(rooms[r].players, p) # 0
           /\ findIndex(rooms'[r].players, p) # 0
           /\ \/ MemberOf(rooms'[r].players, p).isHeroLocked
                    # MemberOf(rooms[r].players, p).isHeroLocked
              \/ MemberOf(rooms'[r].players, p).selectedHeroId
                    # MemberOf(rooms[r].players, p).selectedHeroId )
         => LockBroadcast(sent', r, p, MemberOf(rooms'[r].players, p).selectedHeroId,
                          MemberOf(rooms'[r].players, p).isHeroLocked)]_vars

\* One handler run has just broadcast the lock of a human and, all humans
\* being locked, the lock of a bot.
C29_Witness ==
  \E i, j \in 1..Len(sent), r \in DOMAIN rooms :
    /\ sent[i].type = "PLAYER_HERO_LOCKED" /\ sent[i].playerId \in HumanIds
    /\ sent[i].isLocked /\ sent[i].to = r
    /\ sent[j].type = "PLAYER_HERO_LOCKED" /\ sent[j].playerId \in BotIds
    /\ sent[j].isLocked
    /\ MemberOf(rooms[r].players, sent[j].playerId).selectedHeroId = sent[j].heroId

(***************************************************************************)
(* map layout                                                              *)
(***************************************************************************)

\* The room list is the result of generateRooms' normal path (the catch block
\* returns the hall alone).
NormalPath(m) == Len(m) > 1

OnGrid(x, y) == x \in 0..(GridSize - 1) /\ y \in 0..(GridSize - 1)

OnBorder(room) ==
  room.x = 0 \/ room.x = GridSize - 1 \/ room.y = 0 \/ room.y = GridSize - 1

\* The game mode a map was generated for shows in its exit room's lock.
IsNightmareMap(m) == \E i \in 1..Len(m) : m[i].type = "exit" /\ m[i].isLocked

\* C30: every map generateRooms returns on the normal path has exactly one
\* room per cell of the grid (GridSize x GridSize rooms, no duplicate
\* coordinates); the hall is at the centre, revealed, with all four exits;
\* exactly one room of type exit exists, it lies on the border and none of its
\* exits points off the grid; a keyroom holding the key exists iff the exit is
\* locked, and then lies in an interior cell other than the centre; and the
\* exit of the map generateRooms builds for a mode is locked iff that mode is
\* nightmare
C30_MapLayout ==
  /\ sent = <<>> =>
       \A gameMode \in GameModes, exitPosition \in outerPositions,
          draws \in [0..(DrawPeriod - 1) -> ExitDraws] :
         \A keyPosition \in (IF gameMode = "nightmare" THEN innerPositions
                              ELSE {NoPosition}) :
           LET m == generateRooms(gameMode, exitPosition, keyPosition, draws)
           IN  NormalPath(m) => (IsNightmareMap(m) <=> gameMode = "nightmare")
  /\ NormalPath(sent) =>
    LET m == sent
        exitRooms == {i \in 1..Len(m) : m[i].type = "exit"}
        keyRooms == {i \in 1..Len(m) : m[i].type = "keyroom"}
        withKey == {i \in 1..Len(m) : m[i].hasKey}
    IN  /\ Len(m) = GridSize * GridSize
        /\ \A p \in Positions :
             Cardinality({i \in 1..Len(m) : m[i].x = p.x /\ m[i].y = p.y}) = 1
        /\ \E i \in 1..Len(m) :
             /\ m[i].type = "hall" /\ m[i].x = Center /\ m[i].y = Center
             /\ m[i].isRevealed
             /\ m[i].exits = {"up", "down", "left", "right"}
             /\ HallOf(m) = {i}
        /\ Cardinality(exitRooms) = 1
        /\ \A i \in exitRooms :
             /\ OnBorder(m[i])
             /\ m[i].isExit
             /\ \A exitDir \in m[i].exits :
                  OnGrid(m[i].x + directionMap[exitDir].x,
                         m[i].y + directionMap[exitDir].y)
        /\ withKey = keyRooms
        /\ Cardinality(keyRooms) = (IF IsNightmareMap(m) THEN 1 ELSE 0)
        /\ \A i \in keyRooms :
             /\ m[i].x \in 1..(GridSize - 2) /\ m[i].y \in 1..(GridSize - 2)
             /\ ~(m[i].x = Center /\ m[i].y = Center)

\* A nightmare map on the normal path: the exit is locked, in a corner, and
\* the key room is there.
C30_Witness ==
  /\ NormalPath(sent)
  /\ \E i, j \in 1..Len(sent) :
       /\ sent[i].type = "exit" /\ sent[i].isLocked
       /\ sent[i].x = 0 /\ sent[i].y = 0
       /\ Cardinality(sent[i].exits) >= 2
       /\ sent[j].type = "keyroom" /\ sent[j].hasKey

(***************************************************************************)
(* removal is idempotent                                                   *)
(***************************************************************************)

\* C31: removePlayerFromRoom(room, user) called a second time, or for any
\* user who is not a member, fails and leaves the room's member list, host
\* and status (the whole store) exactly as they were; a leave or remove
\* request for a non-member changes no room
C31_RemoveIdempotent ==
  /\ [](\A r \in DOMAIN rooms, p \in PlayerIds :
         LET once == removePlayerFromRoom(rooms, r, p)
             twice == removePlayerFromRoom(once.rooms, r, p)
         IN  /\ ~twice.ok
             /\ twice.rooms = once.rooms
             /\ findIndex(rooms[r].players, p) = 0 =>
                   ~once.ok /\ once.rooms = rooms)
  /\ [][\A r \in DOMAIN rooms, p \in PlayerIds :
         ( /\ findIndex(rooms[r].players, p) = 0
           /\ HandleLeaveRoom(r, p) \/ HandleRemovePlayerFromRoom(r, p) )
         => rooms' = rooms /\ sent' = <<Http(404, "NULL")>>]_vars

\* The host has been removed (the host role went to a bot, which only a
\* transfer does) and a further removal request has just been refused; the
\* room keeps its remaining member.
C31_Witness ==
  \E r \in DOMAIN rooms :
    /\ sent = <<Http(404, "NULL")>>
    /\ rooms[r].status = "waiting"
    /\ rooms[r].hostId \in BotIds
    /\ Len(rooms[r].players) = 1
    /\ rooms[r].players[1].isHost

(***************************************************************************)
(* updateRoom frame                                                        *)
(***************************************************************************)

\* Update payloads: the one handleLockHero sends, and payloads that carry the
\* protected keys next to an ordinary field.
UpdatePayloads ==
  { [status |-> "playing"],
    [maxPlayers |-> 7],
    [status |-> "ended", maxPlayers |-> 3],
    [roomId |-> "r9", hostId |-> "M", players |-> <<>>, status |-> "waiting",
     maxPlayers |-> 5] }

StartSent(out, r) ==
  \E i \in 1..Len(out) : out[i].type = "ACTUAL_GAME_START" /\ out[i].to = r

\* C33: ACTUAL_GAME_START is broadcast to a given room at most one time over
\* any sequence of LOCK_HERO messages and bot auto-locks; in particular a
\* handler run that follows a run that broadcast it to the room does not
\* broadcast it to that room again
C33_StartAtMostOnce ==
  [][\A r \in RoomIds : StartSent(sent, r) => ~StartSent(sent', r)]_vars

(***************************************************************************)
(* the room of a user                                                      *)
(***************************************************************************)

\* C34: a user is a member of at most one non-ended room at any time, and
\* getPlayerRoomId(user) returns that room: never an ended room
C34_SingleActiveRoom ==
  \A u \in PlayerIds :
    /\ Cardinality({r \in DOMAIN rooms :
                      /\ findIndex(rooms[r].players, u) # 0
                      /\ rooms[r].status # "ended"}) <= 1
    /\ getPlayerRoomId(rooms, u) # NULL =>
         rooms[getPlayerRoomId(rooms, u)].status # "ended"

(***************************************************************************)
(* ended rooms                                                             *)
(***************************************************************************)

\* C35: once a room's status is 'ended', no operation changes its status,
\* its member list or any member's ready or hero-lock flags
C35_EndedIsTerminal ==
  [][\A r \in DOMAIN rooms :
       rooms[r].status = "ended" =>
         /\ r \in DOMAIN rooms'
         /\ rooms'[r].status = "ended"
         /\ rooms'[r].players = rooms[r].players]_vars

(***************************************************************************)
(* hero locks and the room status                                          *)
(***************************************************************************)

\* C36: a member's isHeroLocked and selectedHeroId change only while the room
\* status is character selection: in a waiting, playing or ended room no
\* step changes the lock state of a member who stays, so every room enters
\* character selection with all members unlocked
C36_LocksOnlyInSelection ==
  [][\A r \in DOMAIN rooms :
       /\ (rooms[r].status # "CHARACTER_SELECT" /\ r \in DOMAIN rooms') =>
            \A p \in PlayerIds :
              ( /\ findIndex(rooms[r].players, p) # 0
                /\ findIndex(rooms'[r].players, p) # 0 )
              => /\ MemberOf(rooms'[r].players, p).isHeroLocked
                      = MemberOf(rooms[r].players, p).isHeroLocked
                 /\ MemberOf(rooms'[r].players, p).selectedHeroId
                      = MemberOf(rooms[r].players, p).selectedHeroId
       /\ ( /\ rooms[r].status # "CHARACTER_SELECT"
            /\ r \in DOMAIN rooms'
            /\ rooms'[r].status = "CHARACTER_SELECT" ) =>
            \A i \in 1..Len(rooms'[r].players) : ~rooms'[r].players[i].isHeroLocked]_vars

\* C37: in every reachable state every member with isHeroLocked = true has a
\* non-null selectedHeroId, so the roster of every start event carries a
\* non-null hero for every member and the heroes are pairwise distinct
C37_LockedImpliesHero ==
  /\ \A r \in DOMAIN rooms : \A i \in 1..Len(rooms[r].players) :
       rooms[r].players[i].isHeroLocked => rooms[r].players[i].selectedHeroId # NULL
  /\ \A k \in 1..Len(sent) :
       sent[k].type = "ACTUAL_GAME_START" =>
         \A i, j \in 1..Len(sent[k].players) :
           /\ sent[k].players[i].selectedHeroId # NULL
           /\ i # j => sent[k].players[i].selectedHeroId # sent[k].players[j].selectedHeroId

(***************************************************************************)
(* progress of character selection                                         *)
(***************************************************************************)

\* The lobby with the server's own steps scheduled: the delay a suspended
\* triggerBotsToLock awaits is a timer of the event loop and elapses.  Client
\* requests may or may not arrive.
LobbyFairness == WF_vars(\E k \in 1..MaxTasks : BotTaskStep(k))

LobbyFairSpec == Init /\ [][Next]_vars /\ LobbyFairness

\* Room r is in character selection, non-empty, with every member locked.
SelectionComplete(r) ==
  /\ r \in DOMAIN rooms
  /\ rooms[r].status = "CHARACTER_SELECT"
  /\ checkAllPlayersLocked(rooms, r)

\* C38: if a room in character selection reaches a state in which it is
\* non-empty and every remaining member is locked, then the room eventually
\* becomes 'playing' (or, by a further client request, stops being such a
\* room: a member unlocks or leaves, or the room is closed)
C38_NoStuckSelection ==
  \A r \in RoomIds :
    SelectionComplete(r) ~>
      (\/ r \in DOMAIN rooms /\ rooms[r].status = "playing"
       \/ ~SelectionComplete(r))

(***************************************************************************)
(* exits of generated maps                                                 *)
(***************************************************************************)

\* C39: in every map generateRooms returns, every exit a room declares leads
\* to a cell inside the grid, and the room in that cell declares the opposite
\* exit (no off-grid and no one-way exits)
C39_ExitSymmetry ==
  \A i \in 1..Len(sent) : \A exitDir \in sent[i].exits :
    /\ OnGrid(sent[i].x + directionMap[exitDir].x, sent[i].y + directionMap[exitDir].y)
    /\ \E j \in 1..Len(sent) :
         /\ sent[j].x = sent[i].x + directionMap[exitDir].x
         /\ sent[j].y = sent[i].y + directionMap[exitDir].y
         /\ getOppositeDirection(exitDir) \in sent[j].exits

(***************************************************************************)
(* session store consistency                                               *)
(***************************************************************************)

\* Each user has at most one stored session, and userIdToToken maps a user
\* to token t iff sessions holds t with that user id.
StoreConsistent(st) ==
  /\ \A t1, t2 \in DOMAIN st.sessions :
       st.sessions[t1].userId = st.sessions[t2].userId => t1 = t2
  /\ \A u \in DOMAIN st.userIdToToken :
       /\ st.userIdToToken[u] \in DOMAIN st.sessions
       /\ st.sessions[st.userIdToToken[u]].userId = u
  /\ \A t \in DOMAIN st.sessions :
       /\ st.sessions[t].userId \in DOMAIN st.userIdToToken
       /\ st.userIdToToken[st.sessions[t].userId] = t

====
